---- MODULE Spec2Model ----
(***************************************************************************)
(* Palacios local APIC emulation (devices/apic.c): per-vCPU register bank, *)
(* IRR/ISR/IER vector bitmaps, IRQ queue, IPI routing and the              *)
(* interrupt-controller callbacks, as a state machine.                     *)
(***************************************************************************)
EXTENDS Integers, Sequences, FiniteSets, TLC

(***************************************************************************)
(* Bounds of the model.                                                    *)
(***************************************************************************)
\* number of virtual CPUs of the VM (vm->num_cores), one LAPIC each
NumApics == 2
\* longest IRQ queue explored (v3_queue itself is an unbounded list)
MaxQueue == 2

(***************************************************************************)
(* Program constants.                                                      *)
(***************************************************************************)
APIC_FIXED_DELIVERY == 0
APIC_LOWEST_DELIVERY == 1
APIC_SMI_DELIVERY == 2
APIC_RES1_DELIVERY == 3
APIC_NMI_DELIVERY == 4
APIC_INIT_DELIVERY == 5
APIC_SIPI_DELIVERY == 6
APIC_EXTINT_DELIVERY == 7

APIC_SHORTHAND_NONE == 0
APIC_SHORTHAND_SELF == 1
APIC_SHORTHAND_ALL == 2
APIC_SHORTHAND_ALL_BUT_ME == 3

APIC_DEST_PHYSICAL == 0
APIC_DEST_LOGICAL == 1


APIC_ID_OFFSET == 32
TPR_OFFSET == 128
EOI_OFFSET == 176
LDR_OFFSET == 208
DFR_OFFSET == 224
INT_CMD_LO_OFFSET == 768
INT_CMD_HI_OFFSET == 784
IER_OFFSET0 == 1152

\* offsets of the eight 32-bit subwords of a 256-bit register at `base`
Subwords(base) == {base + (16 * k) : k \in 0 .. 7}
IER_OFFSETS == Subwords(IER_OFFSET0)

\* registers apic_write refuses as read only: REMOTE_READ, VERSION, APR, PPR,
\* EXT_APIC_FEATURE and the subwords of IRR, ISR and TMR
ReadOnlyOffsets == {192, 48, 144, 160, 1024} \cup Subwords(512) \cup Subwords(256) \cup Subwords(384)

\* registers apic_write stores op_val into, with no other effect: SPURIOUS, ESR,
\* the six local vector table entries, TMR_CUR_CNT, TMR_DIV_CFG and the four
\* extended interrupt LVT entries
PlainOffsets == {240, 640, 800, 816, 832, 848, 864, 880, 912, 992, 1280, 1296, 1312, 1328}
TMR_INIT_CNT_OFFSET == 896
TMR_CUR_CNT_OFFSET == 912

\* the NULL source of route_ipi (v3_apic_send_ipi)
NULL == -1

\* pci.c
PCI_DEV_IO_PORT_BASE == 49152
MAX_BUS_DEVICES == 32
PCI_AUTO_DEV_NUM == -1

Apics == 0 .. (NumApics - 1)

(***************************************************************************)
(* Fixed-width arithmetic on the uint8_t / uint32_t values of the code.    *)
(***************************************************************************)
Pow2(n) == 2 ^ n

\* (b & flag) != 0 for a one-bit flag
TestFlag(b, flag) == (b \div flag) % 2 = 1

\* b | flag for a one-bit flag
OrFlag(b, flag) == IF TestFlag(b, flag) THEN b ELSE b + flag

\* b & ~flag for a one-bit flag
ClearFlag(b, flag) == IF TestFlag(b, flag) THEN b - flag ELSE b

\* (uint8_t)x
U8(x) == x % 256

\* A 32-bit word is the tuple of its four bytes, least significant first, as it
\* lies in memory: <<b0, b1, b2, b3>> stands for b0 + 2^8 b1 + 2^16 b2 + 2^24 b3.
\* byte k (0 .. 3) of the word w
ByteOf(w, k) == w[k + 1]

\* the word of a number below 2^31
W32(n) == <<n % 256, (n \div 256) % 256, (n \div 65536) % 256, (n \div 16777216) % 256>>

\* a == b and a < b on uint32_t values
WordLess(a, b) ==
    \E k \in 1 .. 4 : (a[k] < b[k]) /\ (\A j \in (k + 1) .. 4 : a[j] = b[j])

\* 0xfee00000
DEFAULT_BASE_ADDR == <<0, 0, 224, 254>>

\* a 256-bit register as the code stores it: uint8_t reg[32]
ZeroReg == [i \in 0 .. 31 |-> 0]
FullReg == [i \in 0 .. 31 |-> 255]

\* the set of vectors whose bit is set in a 256-bit register
BitsOf(reg) ==
    UNION {{(8 * i) + j : j \in {k \in 0 .. 7 : TestFlag(reg[i], Pow2(k))}} :
           i \in {m \in 0 .. 31 : reg[m] # 0}}

\* whether the bit of vector v is set in a 256-bit register
Bit(reg, v) == TestFlag(reg[v \div 8], Pow2(v % 8))

\* the largest vector of a set, -1 for the empty set
Highest(S) == IF S = {} THEN -1 ELSE CHOOSE m \in S : \A x \in S : x <= m

\* the elements of a sequence
Range(q) == {q[i] : i \in 1 .. Len(q)}

VARIABLES
    base_addr_msr,  \* apic->base_addr_msr.value
    lapic_id,       \* apic->lapic_id.val
    task_prio,      \* apic->task_prio.val
    log_dst,        \* apic->log_dst.val
    dst_fmt,        \* apic->dst_fmt.val
    int_cmd,        \* apic->int_cmd, as [lo, hi]
    ipi_state,      \* apic->ipi_state
    int_req_reg,    \* apic->int_req_reg[32]
    int_svc_reg,    \* apic->int_svc_reg[32]
    int_en_reg,     \* apic->int_en_reg[32]
    irq_queue,      \* apic->irq_queue, head first
    regs,           \* the plain 32-bit registers of the bank, by offset
    core,           \* apic->core: run state and the calls of v3_reset_vm_core
    last,           \* the call that produced this state and what it returned
    state_lock,     \* apic_dev->state_lock: the thread holding it, or NULL
    queue_lock,     \* the lock inside apic->irq_queue: the thread holding it, or NULL
    thread,         \* where each vCPU thread stands inside the call it is running
    missed_ints,    \* apic->missed_ints
    base_addr,      \* apic->base_addr, as [lo, hi]
    mem_regions,    \* the regions hooked in the VM's memory map for the LAPICs
    begun,          \* history: per LAPIC, the vectors passed to apic_begin_irq and not yet ended, oldest first
    devices,        \* pci.c, bus->devices: the device tree of bus 0, by devfn
    dev_map,        \* pci.c, bus->dev_map[MAX_BUS_DEVICES / 8]
    addr_reg,       \* pci.c, pci_state->addr_reg.val
    dev_io_base     \* pci.c, pci_state->dev_io_base

vars == <<base_addr_msr, lapic_id, task_prio, log_dst, dst_fmt, int_cmd,
          ipi_state, int_req_reg, int_svc_reg, int_en_reg, irq_queue, regs, core, last,
          state_lock, queue_lock, thread, missed_ints, base_addr, mem_regions, begun,
          devices, dev_map, addr_reg, dev_io_base>>

(***************************************************************************)
(* init_apic_state / apic_init                                             *)
(***************************************************************************)
\* the reset values of the plain registers: spurious_int 0xff, the six local
\* vector table entries 0x00010000 (masked), the counters and tmr_div_cfg 0
ResetRegs ==
    [off \in PlainOffsets \cup {TMR_INIT_CNT_OFFSET} |->
        IF off = 240 THEN <<255, 0, 0, 0>>
        ELSE IF off \in {800, 816, 832, 848, 864, 880} THEN <<0, 0, 1, 0>>
        ELSE <<0, 0, 0, 0>>]

ResetIcr == [lo |-> <<0, 0, 0, 0>>, hi |-> <<0, 0, 0, 0>>]

init_apic_state(id) ==
    [ base_addr_msr |-> [lo |-> <<0, IF id = 0 THEN 9 ELSE 8,
                                  DEFAULT_BASE_ADDR[3], DEFAULT_BASE_ADDR[4]>>,
                           hi |-> W32(0)],
      lapic_id      |-> W32(id),
      task_prio     |-> W32(0),
      log_dst       |-> W32(0),
      dst_fmt       |-> <<255, 255, 255, 255>>,
      int_cmd       |-> ResetIcr,
      ipi_state     |-> "INIT_ST",
      int_req_reg   |-> ZeroReg,
      int_svc_reg   |-> ZeroReg,
      int_en_reg    |-> FullReg,
      irq_queue     |-> << >>,
      regs          |-> ResetRegs,
      missed_ints   |-> 0,
      base_addr     |-> [lo |-> DEFAULT_BASE_ADDR, hi |-> W32(0)] ]

\* what a call leaves in `last`: the entry point, the vCPU or destination it ran
\* for, its argument, its return value and the LAPICs deliver_ipi was called on
Call(op, apic, arg, ret, dests) ==
    [op |-> op, apic |-> apic, arg |-> arg, ret |-> ret, dests |-> dests]

\* a vCPU thread outside every call: pc is its position, call the path it
\* took, arg the value it was called with, i the loop index of route_ipi,
\* cur_best_apic and dst its locals
Idle == [pc |-> "idle", call |-> "none", arg |-> 0, i |-> 0, cur_best_apic |-> NULL, dst |-> NULL]

\* the vCPU a LAPIC is attached to: the boot processor runs, the others wait
\* for their Startup IPI
InitCore(a) ==
    [core_run_state |-> IF a = 0 THEN "CORE_RUNNING" ELSE "CORE_STOPPED",
     reset_vector |-> 0, num_resets |-> 0]

Init ==
    /\ base_addr_msr = [a \in Apics |-> init_apic_state(a).base_addr_msr]
    /\ lapic_id = [a \in Apics |-> init_apic_state(a).lapic_id]
    /\ task_prio = [a \in Apics |-> init_apic_state(a).task_prio]
    /\ log_dst = [a \in Apics |-> init_apic_state(a).log_dst]
    /\ dst_fmt = [a \in Apics |-> init_apic_state(a).dst_fmt]
    /\ int_cmd = [a \in Apics |-> init_apic_state(a).int_cmd]
    /\ ipi_state = [a \in Apics |-> init_apic_state(a).ipi_state]
    /\ int_req_reg = [a \in Apics |-> init_apic_state(a).int_req_reg]
    /\ int_svc_reg = [a \in Apics |-> init_apic_state(a).int_svc_reg]
    /\ int_en_reg = [a \in Apics |-> init_apic_state(a).int_en_reg]
    /\ irq_queue = [a \in Apics |-> init_apic_state(a).irq_queue]
    /\ regs = [a \in Apics |-> init_apic_state(a).regs]
    /\ core = [a \in Apics |-> InitCore(a)]
    /\ last = Call("apic_init", NULL, 0, 0, << >>)
    /\ state_lock = NULL
    /\ queue_lock = [a \in Apics |-> NULL]
    /\ thread = [t \in Apics |-> Idle]
    /\ missed_ints = [a \in Apics |-> init_apic_state(a).missed_ints]
    /\ base_addr = [a \in Apics |-> init_apic_state(a).base_addr]
    /\ mem_regions = {[core_id |-> a, guest_start |-> init_apic_state(a).base_addr] : a \in Apics}
    /\ begun = [a \in Apics |-> << >>]
    /\ devices = << >>
    /\ dev_map = [i \in 0 .. 3 |-> 0]
    /\ addr_reg = W32(0)
    /\ dev_io_base = PCI_DEV_IO_PORT_BASE

(***************************************************************************)
(* IRQ queue (palacios/vmm_queue.h): a FIFO list; v3_dequeue returns 0     *)
(* when the list is empty.                                                 *)
(***************************************************************************)
v3_enqueue(queue, entry) == Append(queue, entry)

v3_dequeue(queue) ==
    IF queue = << >>
    THEN [entry |-> 0, queue |-> queue]
    ELSE [entry |-> Head(queue), queue |-> Tail(queue)]

(***************************************************************************)
(* Vector bitmaps                                                          *)
(***************************************************************************)
\* activate_apic_irq: returns the new int_req_reg and the return value
\* activate_apic_irq without the coalescing test: a request already set is
\* reported as newly raised
activate_apic_irq_nocoalesce(req, en, irq_num) ==
    LET major_offset == irq_num \div 8
        flag == Pow2(irq_num % 8)
    IN  IF TestFlag(en[major_offset], flag)
        THEN [req |-> [req EXCEPT ![major_offset] = OrFlag(@, flag)], ret |-> 1]
        ELSE [req |-> req, ret |-> 0]

activate_apic_irq(req, en, irq_num) ==
    LET major_offset == irq_num \div 8
        minor_offset == irq_num % 8
        flag == Pow2(minor_offset)
    IN  IF TestFlag(req[major_offset], flag)
        THEN [req |-> req, ret |-> 0]
        ELSE IF TestFlag(en[major_offset], flag)
             THEN [req |-> [req EXCEPT ![major_offset] = OrFlag(@, flag)], ret |-> 1]
             ELSE [req |-> req, ret |-> 0]

\* add_apic_irq_entry with the bound off by one (irq_num < 15)
add_apic_irq_entry_below15(queue, irq) ==
    IF U8(irq) < 15 THEN [queue |-> queue, ret |-> -1]
    ELSE [queue |-> v3_enqueue(queue, U8(irq)), ret |-> 0]

\* add_apic_irq_entry that puts the new entry at the head of the queue
add_apic_irq_entry_at_head(queue, irq) ==
    IF U8(irq) <= 15 THEN [queue |-> queue, ret |-> -1]
    ELSE [queue |-> <<U8(irq)>> \o queue, ret |-> 0]

\* add_apic_irq_entry: irq_num is a uint8_t parameter
add_apic_irq_entry(queue, irq) ==
    LET irq_num == U8(irq)
    IN  IF irq_num <= 15
        THEN [queue |-> queue, ret |-> -1]
        ELSE [queue |-> v3_enqueue(queue, irq_num), ret |-> 0]

\* drain_irq_entries that handles one entry per call
drain_irq_entries_one(queue, req, en) ==
    LET d == v3_dequeue(queue)
    IN  IF d.entry = 0
        THEN [queue |-> d.queue, req |-> req]
        ELSE [queue |-> d.queue, req |-> activate_apic_irq(req, en, d.entry).req]

\* drain_irq_entries: dequeue until v3_dequeue returns 0, activating each entry
RECURSIVE drain_irq_entries(_, _, _)
drain_irq_entries(queue, req, en) ==
    LET d == v3_dequeue(queue)
    IN  IF d.entry = 0
        THEN [queue |-> d.queue, req |-> req]
        ELSE drain_irq_entries(d.queue, activate_apic_irq(req, en, d.entry).req, en)

\* inner loop of get_highest_isr / get_highest_irr: for (j = 7; j >= 0; j--),
\* the first set bit met scanning down from j, -1 when there is none
ScanMinor(b, j) ==
    LET hits == {k \in 0 .. j : TestFlag(b, Pow2(k))}
    IN  IF hits = {} THEN -1 ELSE Highest(hits)

\* outer loop of get_highest_isr / get_highest_irr: for (i = 31; i >= 0; i--),
\* the first nonzero byte met scanning down from i decides
ScanMajor(reg, i) ==
    LET hits == {k \in 0 .. i : reg[k] % 256 # 0}
    IN  IF hits = {} THEN -1
        ELSE (Highest(hits) * 8) + ScanMinor(reg[Highest(hits)], 7)

\* get_highest_isr with the outer loop started one byte low (i = 30)
get_highest_isr_from30(svc) == ScanMajor(svc, 30)

get_highest_isr(svc) == ScanMajor(svc, 31)

get_highest_irr(req) == ScanMajor(req, 31)

\* apic_do_eoi that finds the vector but leaves its bit set
apic_do_eoi_noclear(svc) == svc

\* apic_do_eoi: returns the new int_svc_reg
apic_do_eoi(svc) ==
    LET isr_irq == get_highest_isr(svc)
    IN  IF isr_irq # -1
        THEN LET major_offset == isr_irq \div 8
                 minor_offset == isr_irq % 8
                 flag == Pow2(minor_offset)
             IN  [svc EXCEPT ![major_offset] = ClearFlag(@, flag)]
        ELSE svc

(***************************************************************************)
(* The device state as one value: a handler maps a state to the next one.  *)
(***************************************************************************)
State ==
    [ base_addr_msr |-> base_addr_msr, lapic_id |-> lapic_id, task_prio |-> task_prio,
      log_dst |-> log_dst, dst_fmt |-> dst_fmt, int_cmd |-> int_cmd,
      ipi_state |-> ipi_state, int_req_reg |-> int_req_reg,
      int_svc_reg |-> int_svc_reg, int_en_reg |-> int_en_reg,
      irq_queue |-> irq_queue, regs |-> regs, core |-> core, last |-> last,
      missed_ints |-> missed_ints, base_addr |-> base_addr, mem_regions |-> mem_regions ]

\* the device takes the state s
Stores(s) ==
    /\ base_addr_msr' = s.base_addr_msr
    /\ lapic_id' = s.lapic_id
    /\ task_prio' = s.task_prio
    /\ log_dst' = s.log_dst
    /\ dst_fmt' = s.dst_fmt
    /\ int_cmd' = s.int_cmd
    /\ ipi_state' = s.ipi_state
    /\ int_req_reg' = s.int_req_reg
    /\ int_svc_reg' = s.int_svc_reg
    /\ int_en_reg' = s.int_en_reg
    /\ irq_queue' = s.irq_queue
    /\ regs' = s.regs
    /\ core' = s.core
    /\ last' = s.last
    /\ missed_ints' = s.missed_ints
    /\ base_addr' = s.base_addr
    /\ mem_regions' = s.mem_regions
    /\ UNCHANGED <<state_lock, queue_lock, thread, devices, dev_map, addr_reg, dev_io_base>>

Becomes(s) == Stores(s) /\ UNCHANGED begun

(***************************************************************************)
(* Interrupt-controller callbacks                                          *)
(***************************************************************************)
\* apic_intr_pending comparing with >= instead of >
apic_intr_pending_ge(s, c) ==
    LET d == drain_irq_entries(s.irq_queue[c], s.int_req_reg[c], s.int_en_reg[c])
        req_irq == get_highest_irr(d.req)
        svc_irq == get_highest_isr(s.int_svc_reg[c])
        ret == IF (req_irq >= 0) /\ (req_irq >= svc_irq) THEN 1 ELSE 0
    IN  [s EXCEPT !.irq_queue[c] = d.queue,
                  !.int_req_reg[c] = d.req,
                  !.last = Call("apic_intr_pending", c, 0, ret, << >>)]

apic_intr_pending(s, c) ==
    LET d == drain_irq_entries(s.irq_queue[c], s.int_req_reg[c], s.int_en_reg[c])
        req_irq == get_highest_irr(d.req)
        svc_irq == get_highest_isr(s.int_svc_reg[c])
        ret == IF (req_irq >= 0) /\ (req_irq > svc_irq) THEN 1 ELSE 0
    IN  [s EXCEPT !.irq_queue[c] = d.queue,
                  !.int_req_reg[c] = d.req,
                  !.last = Call("apic_intr_pending", c, 0, ret, << >>)]

\* apic_get_intr_number comparing with <= instead of <
apic_get_intr_number_le(s, c) ==
    LET req_irq == get_highest_irr(s.int_req_reg[c])
        svc_irq == get_highest_isr(s.int_svc_reg[c])
        ret == IF svc_irq = -1 THEN req_irq
               ELSE IF svc_irq <= req_irq THEN req_irq
               ELSE -1
    IN  [s EXCEPT !.last = Call("apic_get_intr_number", c, 0, ret, << >>)]

apic_get_intr_number(s, c) ==
    LET req_irq == get_highest_irr(s.int_req_reg[c])
        svc_irq == get_highest_isr(s.int_svc_reg[c])
        ret == IF svc_irq = -1 THEN req_irq
               ELSE IF svc_irq < req_irq THEN req_irq
               ELSE -1
    IN  [s EXCEPT !.last = Call("apic_get_intr_number", c, 0, ret, << >>)]

\* apic_begin_irq that sets the in-service bit and leaves the request bit set
apic_begin_irq_keeps_req(s, c, irq) ==
    LET major_offset == irq \div 8
        flag == Pow2(irq % 8)
        t == IF TestFlag(s.int_req_reg[c][major_offset], flag)
             THEN [s EXCEPT !.int_svc_reg[c][major_offset] = OrFlag(@, flag)]
             ELSE s
    IN  [t EXCEPT !.last = Call("apic_begin_irq", c, irq, 0, << >>)]

\* apic_begin_irq without the test of the request bit
apic_begin_irq_always(s, c, irq) ==
    LET major_offset == irq \div 8
        flag == Pow2(irq % 8)
        t == [s EXCEPT !.int_svc_reg[c][major_offset] = OrFlag(@, flag),
                       !.int_req_reg[c][major_offset] = ClearFlag(@, flag)]
    IN  [t EXCEPT !.last = Call("apic_begin_irq", c, irq, 0, << >>)]

apic_begin_irq(s, c, irq) ==
    LET major_offset == irq \div 8
        minor_offset == irq % 8
        flag == Pow2(minor_offset)
        t == IF TestFlag(s.int_req_reg[c][major_offset], flag)
             THEN [s EXCEPT !.int_svc_reg[c][major_offset] = OrFlag(@, flag),
                            !.int_req_reg[c][major_offset] = ClearFlag(@, flag)]
             ELSE s
    IN  [t EXCEPT !.last = Call("apic_begin_irq", c, irq, 0, << >>)]

v3_apic_raise_intr(s, irq, dst) ==
    LET e == add_apic_irq_entry(s.irq_queue[dst], irq)
    IN  [s EXCEPT !.irq_queue[dst] = e.queue,
                  !.last = Call("v3_apic_raise_intr", dst, irq, 0, << >>)]

(***************************************************************************)
(* Register fields (devices/apic_regs.h)                                   *)
(***************************************************************************)
\* struct int_cmd_reg: vec:8, del_mode:3, dst_mode:1, ..., dst_shorthand:2 at
\* bit 18, dst:8 at bit 56
icr_vec(icr) == icr.lo[1]
icr_del_mode(icr) == icr.lo[2] % 8
icr_dst_mode(icr) == (icr.lo[2] \div 8) % 2
icr_dst_shorthand(icr) == (icr.lo[3] \div 4) % 4
icr_dst(icr) == icr.hi[4]

\* the low and high words that carry the given fields and zero elsewhere
MkIcrLo(vec, del_mode, dst_mode, trig_mode, shorthand) ==
    <<vec % 256,
      (del_mode % 8) + ((dst_mode % 2) * 8) + ((trig_mode % 2) * 128),
      (shorthand % 4) * 4,
      0>>
MkIcrHi(dst) == <<0, 0, 0, dst % 256>>

\* struct dst_fmt_reg: model is the top nibble; struct log_dst_reg: dst_log_id
\* is the top byte
dst_fmt_model(val) == val[4] \div 16
dst_log_id(val) == val[4]

\* struct apic_msr: apic_enable is bit 11
msr_apic_enable(value) == (value.lo[2] \div 8) % 2

\* x & y on bytes
RECURSIVE BitAnd(_, _, _)
BitAnd(x, y, k) ==
    IF k < 0 THEN 0
    ELSE (IF TestFlag(x, Pow2(k)) /\ TestFlag(y, Pow2(k)) THEN Pow2(k) ELSE 0)
         + BitAnd(x, y, k - 1)
And8(x, y) == BitAnd(x, y, 7)

(***************************************************************************)
(* IPI routing                                                             *)
(***************************************************************************)
\* should_deliver_cluster_ipi that does not compare the cluster ids
should_deliver_cluster_ipi_any_cluster(s, dst, mda) ==
    IF And8(And8(mda, 15), And8(dst_log_id(s.log_dst[dst]), 15)) # 0
    THEN 1 ELSE 0

should_deliver_cluster_ipi(s, dst, mda) ==
    IF (And8(mda, 240) = And8(dst_log_id(s.log_dst[dst]), 240))
       /\ (And8(And8(mda, 15), And8(dst_log_id(s.log_dst[dst]), 15)) # 0)
    THEN 1 ELSE 0

should_deliver_flat_ipi(s, dst, mda) ==
    IF And8(dst_log_id(s.log_dst[dst]), mda) # 0 THEN 1 ELSE 0

should_deliver_ipi(s, dst, mda) ==
    IF dst_fmt_model(s.dst_fmt[dst]) = 15
    THEN (IF mda = 255 THEN 1 ELSE should_deliver_flat_ipi(s, dst, mda))
    ELSE IF dst_fmt_model(s.dst_fmt[dst]) = 0
    THEN (IF mda = 255 THEN 1 ELSE should_deliver_cluster_ipi(s, dst, mda))
    ELSE -1

\* the call v3_reset_vm_core(dst_core, vector) of deliver_ipi: the vCPU records
\* the vector it was reset with and how often it was reset
v3_reset_vm_core(c, vector) ==
    [c EXCEPT !.reset_vector = vector, !.num_resets = @ + 1]

\* deliver_ipi whose Startup case has no test of ipi_state
deliver_ipi_sipi_always(s, src, dst, vector, del_mode) ==
    CASE del_mode \in {APIC_FIXED_DELIVERY, APIC_LOWEST_DELIVERY} ->
            [s |-> [s EXCEPT !.irq_queue[dst] = add_apic_irq_entry(@, vector).queue],
             ret |-> 0]
      [] del_mode = APIC_INIT_DELIVERY ->
            IF s.ipi_state[dst] # "INIT_ST"
            THEN [s |-> s, ret |-> 0]
            ELSE [s |-> [s EXCEPT !.ipi_state[dst] = "SIPI"], ret |-> 0]
      [] del_mode = APIC_SIPI_DELIVERY ->
            [s |-> [s EXCEPT !.core[dst] =
                                 [v3_reset_vm_core(@, vector)
                                     EXCEPT !.core_run_state = "CORE_RUNNING"],
                             !.ipi_state[dst] = "STARTED"],
             ret |-> 0]
      [] del_mode = APIC_EXTINT_DELIVERY -> [s |-> s, ret |-> 0]
      [] OTHER -> [s |-> s, ret |-> -1]

\* deliver_ipi whose INIT case has no test of ipi_state
deliver_ipi_init_always(s, src, dst, vector, del_mode) ==
    CASE del_mode \in {APIC_FIXED_DELIVERY, APIC_LOWEST_DELIVERY} ->
            [s |-> [s EXCEPT !.irq_queue[dst] = add_apic_irq_entry(@, vector).queue],
             ret |-> 0]
      [] del_mode = APIC_INIT_DELIVERY ->
            [s |-> [s EXCEPT !.ipi_state[dst] = "SIPI"], ret |-> 0]
      [] del_mode = APIC_SIPI_DELIVERY ->
            IF s.ipi_state[dst] # "SIPI"
            THEN [s |-> s, ret |-> 0]
            ELSE [s |-> [s EXCEPT !.core[dst] =
                                      [v3_reset_vm_core(@, vector)
                                          EXCEPT !.core_run_state = "CORE_RUNNING"],
                                  !.ipi_state[dst] = "STARTED"],
                  ret |-> 0]
      [] del_mode = APIC_EXTINT_DELIVERY -> [s |-> s, ret |-> 0]
      [] OTHER -> [s |-> s, ret |-> -1]

\* deliver_ipi that treats an NMI as a fixed interrupt
deliver_ipi_nmi_as_fixed(s, src, dst, vector, del_mode) ==
    CASE del_mode \in {APIC_FIXED_DELIVERY, APIC_LOWEST_DELIVERY, APIC_NMI_DELIVERY} ->
            [s |-> [s EXCEPT !.irq_queue[dst] = add_apic_irq_entry(@, vector).queue],
             ret |-> 0]
      [] del_mode = APIC_INIT_DELIVERY ->
            IF s.ipi_state[dst] # "INIT_ST"
            THEN [s |-> s, ret |-> 0]
            ELSE [s |-> [s EXCEPT !.ipi_state[dst] = "SIPI"], ret |-> 0]
      [] del_mode = APIC_SIPI_DELIVERY ->
            IF s.ipi_state[dst] # "SIPI"
            THEN [s |-> s, ret |-> 0]
            ELSE [s |-> [s EXCEPT !.core[dst] =
                                      [v3_reset_vm_core(@, vector)
                                          EXCEPT !.core_run_state = "CORE_RUNNING"],
                                  !.ipi_state[dst] = "STARTED"],
                  ret |-> 0]
      [] del_mode = APIC_EXTINT_DELIVERY -> [s |-> s, ret |-> 0]
      [] OTHER -> [s |-> s, ret |-> -1]

\* deliver_ipi: returns the new state and the return value
deliver_ipi(s, src, dst, vector, del_mode) ==
    CASE del_mode \in {APIC_FIXED_DELIVERY, APIC_LOWEST_DELIVERY} ->
            [s |-> [s EXCEPT !.irq_queue[dst] = add_apic_irq_entry(@, vector).queue],
             ret |-> 0]
      [] del_mode = APIC_INIT_DELIVERY ->
            IF s.ipi_state[dst] # "INIT_ST"
            THEN [s |-> s, ret |-> 0]
            ELSE [s |-> [s EXCEPT !.ipi_state[dst] = "SIPI"], ret |-> 0]
      [] del_mode = APIC_SIPI_DELIVERY ->
            IF s.ipi_state[dst] # "SIPI"
            THEN [s |-> s, ret |-> 0]
            ELSE [s |-> [s EXCEPT !.core[dst] =
                                      [v3_reset_vm_core(@, vector)
                                          EXCEPT !.core_run_state = "CORE_RUNNING"],
                                  !.ipi_state[dst] = "STARTED"],
                  ret |-> 0]
      [] del_mode = APIC_EXTINT_DELIVERY -> [s |-> s, ret |-> 0]
      [] OTHER -> [s |-> s, ret |-> -1]

\* the linear search of find_physical_apic: the last LAPIC with the id wins
RECURSIVE FindLoop(_, _, _, _)
FindLoop(s, dst_idx, i, dst_apic) ==
    IF i >= NumApics THEN dst_apic
    ELSE FindLoop(s, dst_idx, i + 1, IF s.lapic_id[i] = W32(dst_idx) THEN i ELSE dst_apic)

\* find_physical_apic with the fast path only, without the linear search
find_physical_apic_fast_only(s, dst_idx) ==
    IF (dst_idx > 0) /\ (dst_idx < NumApics)
    THEN (IF s.lapic_id[dst_idx] = W32(dst_idx) THEN dst_idx ELSE NULL)
    ELSE NULL

\* find_physical_apic that falls back to LAPIC 0 when no LAPIC has the id
find_physical_apic_or_first(s, dst_idx) ==
    LET fast == IF (dst_idx > 0) /\ (dst_idx < NumApics)
                THEN (IF s.lapic_id[dst_idx] = W32(dst_idx) THEN dst_idx ELSE 0)
                ELSE 0
    IN  FindLoop(s, dst_idx, 0, fast)

find_physical_apic(s, dst_idx) ==
    LET fast == IF (dst_idx > 0) /\ (dst_idx < NumApics)
                THEN (IF s.lapic_id[dst_idx] = W32(dst_idx) THEN dst_idx ELSE NULL)
                ELSE NULL
    IN  FindLoop(s, dst_idx, 0, fast)

\* result of route_ipi: new state, return value, LAPICs deliver_ipi was called on
Routed(s, ret, dests) == [s |-> s, ret |-> ret, dests |-> dests]

\* LogicalLoop that delivers to every LAPIC whose destination format is valid,
\* whether it matches or not
RECURSIVE LogicalLoop_all(_, _, _, _, _)
LogicalLoop_all(s, src, icr, i, dests) ==
    IF i >= NumApics THEN Routed(s, 0, dests)
    ELSE LET del_flag == should_deliver_ipi(s, i, icr_dst(icr))
         IN  IF del_flag = -1 THEN Routed(s, -1, dests)
             ELSE LET d == deliver_ipi(s, src, i, icr_vec(icr), icr_del_mode(icr))
                  IN  IF d.ret = -1 THEN Routed(d.s, -1, Append(dests, i))
                      ELSE LogicalLoop_all(d.s, src, icr, i + 1, Append(dests, i))

\* route_ipi, no shorthand, logical, not lowest priority: the loop over all LAPICs
RECURSIVE LogicalLoop(_, _, _, _, _)
LogicalLoop(s, src, icr, i, dests) ==
    IF i >= NumApics THEN Routed(s, 0, dests)
    ELSE LET del_flag == should_deliver_ipi(s, i, icr_dst(icr))
         IN  IF del_flag = -1 THEN Routed(s, -1, dests)
             ELSE IF del_flag = 1
             THEN LET d == deliver_ipi(s, src, i, icr_vec(icr), icr_del_mode(icr))
                  IN  IF d.ret = -1 THEN Routed(d.s, -1, Append(dests, i))
                      ELSE LogicalLoop(d.s, src, icr, i + 1, Append(dests, i))
             ELSE LogicalLoop(s, src, icr, i + 1, dests)

\* LowestScan that gives a tie to the LAPIC met last
RECURSIVE LowestScan_last_tie(_, _, _, _)
LowestScan_last_tie(s, mda, i, cur_best_apic) ==
    IF i >= NumApics THEN cur_best_apic
    ELSE LET del_flag == should_deliver_ipi(s, i, mda)
         IN  IF del_flag = -1 THEN -2
             ELSE IF del_flag = 1
             THEN LowestScan_last_tie(s, mda, i + 1,
                             IF cur_best_apic = NULL THEN i
                             ELSE IF ~WordLess(s.task_prio[cur_best_apic], s.task_prio[i]) THEN i
                             ELSE cur_best_apic)
             ELSE LowestScan_last_tie(s, mda, i + 1, cur_best_apic)

\* route_ipi, logical lowest priority: the scan for cur_best_apic
\* (-2 when should_deliver_ipi fails)
RECURSIVE LowestScan(_, _, _, _)
LowestScan(s, mda, i, cur_best_apic) ==
    IF i >= NumApics THEN cur_best_apic
    ELSE LET del_flag == should_deliver_ipi(s, i, mda)
         IN  IF del_flag = -1 THEN -2
             ELSE IF del_flag = 1
             THEN LowestScan(s, mda, i + 1,
                             IF cur_best_apic = NULL THEN i
                             ELSE IF WordLess(s.task_prio[i], s.task_prio[cur_best_apic]) THEN i
                             ELSE cur_best_apic)
             ELSE LowestScan(s, mda, i + 1, cur_best_apic)

\* AllLoop that skips the source under either shorthand
RECURSIVE AllLoop_skips_src(_, _, _, _, _)
AllLoop_skips_src(s, src, icr, i, dests) ==
    IF i >= NumApics THEN Routed(s, 0, dests)
    ELSE IF i # src
    THEN LET d == deliver_ipi(s, src, i, icr_vec(icr), icr_del_mode(icr))
         IN  IF d.ret = -1 THEN Routed(d.s, -1, Append(dests, i))
             ELSE AllLoop_skips_src(d.s, src, icr, i + 1, Append(dests, i))
    ELSE AllLoop_skips_src(s, src, icr, i + 1, dests)

\* route_ipi, shorthands all and all-but-me: the loop over all LAPICs
RECURSIVE AllLoop(_, _, _, _, _)
AllLoop(s, src, icr, i, dests) ==
    IF i >= NumApics THEN Routed(s, 0, dests)
    ELSE IF (i # src) \/ (icr_dst_shorthand(icr) = APIC_SHORTHAND_ALL)
    THEN LET d == deliver_ipi(s, src, i, icr_vec(icr), icr_del_mode(icr))
         IN  IF d.ret = -1 THEN Routed(d.s, -1, Append(dests, i))
             ELSE AllLoop(d.s, src, icr, i + 1, Append(dests, i))
    ELSE AllLoop(s, src, icr, i + 1, dests)

route_ipi(s, src, icr) ==
    CASE icr_dst_shorthand(icr) = APIC_SHORTHAND_NONE ->
            IF icr_dst_mode(icr) = APIC_DEST_PHYSICAL
            THEN LET dest_apic == find_physical_apic(s, icr_dst(icr))
                 IN  IF dest_apic = NULL THEN Routed(s, -1, << >>)
                     ELSE LET d == deliver_ipi(s, src, dest_apic, icr_vec(icr), icr_del_mode(icr))
                          IN  Routed(d.s, d.ret, <<dest_apic>>)
            ELSE IF icr_del_mode(icr) # APIC_LOWEST_DELIVERY
            THEN LogicalLoop(s, src, icr, 0, << >>)
            ELSE LET cur_best_apic == LowestScan(s, icr_dst(icr), 0, NULL)
                 IN  IF cur_best_apic = -2 THEN Routed(s, -1, << >>)
                     ELSE IF cur_best_apic = NULL THEN Routed(s, 0, << >>)
                     ELSE LET d == deliver_ipi(s, src, cur_best_apic, icr_vec(icr), icr_del_mode(icr))
                          IN  Routed(d.s, d.ret, <<cur_best_apic>>)
      [] icr_dst_shorthand(icr) = APIC_SHORTHAND_SELF ->
            IF src = NULL THEN Routed(s, 0, << >>)
            ELSE LET d == deliver_ipi(s, src, src, icr_vec(icr), icr_del_mode(icr))
                 IN  Routed(d.s, d.ret, <<src>>)
      [] OTHER -> AllLoop(s, src, icr, 0, << >>)

\* v3_apic_send_ipi: ipi is a struct v3_gen_ipi, the source is NULL
v3_apic_send_ipi(s, ipi) ==
    LET tmp_icr == [lo |-> MkIcrLo(ipi.vector, ipi.mode, ipi.logical, ipi.trigger_mode,
                                   ipi.dst_shorthand),
                    hi |-> MkIcrHi(ipi.dst)]
        r == route_ipi(s, NULL, tmp_icr)
    IN  [r.s EXCEPT !.last = Call("v3_apic_send_ipi", NULL, tmp_icr, r.ret, r.dests)]

(***************************************************************************)
(* MMIO write                                                              *)
(***************************************************************************)
\* apic_write with no test of the length
apic_write_unchecked_length(s, c, reg_addr, op_val, length) ==
    [s EXCEPT !.int_svc_reg[c] = IF reg_addr = EOI_OFFSET THEN apic_do_eoi(@) ELSE @,
              !.last = Call("apic_write", c, reg_addr, length, << >>)]

\* apic_write that stores the word in the addressed register and nowhere else
apic_write_one_register(s, c, reg_addr, op_val, length) ==
    [s EXCEPT !.regs[c][reg_addr] = op_val,
              !.last = Call("apic_write", c, reg_addr, length, << >>)]

\* apic_write: reg_addr is guest_addr - apic->base_addr
apic_write(s, c, reg_addr, op_val, length) ==
    LET Ret(t, ret, dests) == [t EXCEPT !.last = Call("apic_write", c, reg_addr, ret, dests)]
    IN  IF msr_apic_enable(s.base_addr_msr[c]) = 0 THEN Ret(s, -1, << >>)
        ELSE IF length # 4 THEN Ret(s, -1, << >>)
        ELSE CASE reg_addr \in ReadOnlyOffsets -> Ret(s, length, << >>)
               [] reg_addr = APIC_ID_OFFSET ->
                    Ret([s EXCEPT !.lapic_id[c] = op_val], length, << >>)
               [] reg_addr = TPR_OFFSET ->
                    Ret([s EXCEPT !.task_prio[c] = op_val], length, << >>)
               [] reg_addr = LDR_OFFSET ->
                    Ret([s EXCEPT !.log_dst[c] = op_val], length, << >>)
               [] reg_addr = DFR_OFFSET ->
                    Ret([s EXCEPT !.dst_fmt[c] = op_val], length, << >>)
               [] reg_addr = TMR_INIT_CNT_OFFSET ->
                    Ret([s EXCEPT !.regs[c][TMR_INIT_CNT_OFFSET] = op_val,
                                  !.regs[c][TMR_CUR_CNT_OFFSET] = op_val], length, << >>)
               [] reg_addr \in PlainOffsets ->
                    Ret([s EXCEPT !.regs[c][reg_addr] = op_val], length, << >>)
               [] reg_addr \in IER_OFFSETS ->
                    LET k == (reg_addr - IER_OFFSET0) \div 16
                    IN  Ret([s EXCEPT !.int_en_reg[c] =
                                [i \in 0 .. 31 |->
                                    IF (i >= 4 * k) /\ (i < (4 * k) + 4)
                                    THEN ByteOf(op_val, i - (4 * k))
                                    ELSE @[i]]],
                            length, << >>)
               [] reg_addr = EOI_OFFSET ->
                    Ret([s EXCEPT !.int_svc_reg[c] = apic_do_eoi(@)], length, << >>)
               [] reg_addr = INT_CMD_LO_OFFSET ->
                    LET t == [s EXCEPT !.int_cmd[c].lo = op_val]
                        r == route_ipi(t, c, t.int_cmd[c])
                    IN  IF r.ret = -1 THEN Ret(r.s, -1, r.dests)
                        ELSE Ret(r.s, length, r.dests)
               [] reg_addr = INT_CMD_HI_OFFSET ->
                    Ret([s EXCEPT !.int_cmd[c].hi = op_val], length, << >>)
               [] OTHER -> Ret(s, -1, << >>)

(***************************************************************************)
(* Local interrupt sources and the timer interrupt                         *)
(***************************************************************************)
\* fields of a local vector table entry: vec:8, msg_type:3 at bit 8, mask at
\* bit 16
lvt_vec(val) == val[1]
lvt_msg_type(val) == val[2] % 8
lvt_mask(val) == val[3] % 2

\* activate_internal_irq without the test of the mask bit
activate_internal_irq_ignores_mask(queue, rg, int_type) ==
    LET off == CASE int_type = "APIC_TMR_INT" -> 800
                 [] int_type = "APIC_THERM_INT" -> 816
                 [] int_type = "APIC_PERF_INT" -> 832
                 [] int_type = "APIC_LINT0_INT" -> 848
                 [] int_type = "APIC_LINT1_INT" -> 864
                 [] int_type = "APIC_ERR_INT" -> 880
    IN  IF (int_type \in {"APIC_TMR_INT", "APIC_ERR_INT"})
           \/ (lvt_msg_type(rg[off]) = APIC_FIXED_DELIVERY)
        THEN add_apic_irq_entry(queue, lvt_vec(rg[off]))
        ELSE [queue |-> queue, ret |-> -1]

\* activate_internal_irq: returns the new IRQ queue and the return value
activate_internal_irq(queue, rg, int_type) ==
    LET off == CASE int_type = "APIC_TMR_INT" -> 800
                 [] int_type = "APIC_THERM_INT" -> 816
                 [] int_type = "APIC_PERF_INT" -> 832
                 [] int_type = "APIC_LINT0_INT" -> 848
                 [] int_type = "APIC_LINT1_INT" -> 864
                 [] int_type = "APIC_ERR_INT" -> 880
        vec_num == lvt_vec(rg[off])
        del_mode == IF int_type \in {"APIC_TMR_INT", "APIC_ERR_INT"}
                    THEN APIC_FIXED_DELIVERY
                    ELSE lvt_msg_type(rg[off])
        masked == lvt_mask(rg[off])
    IN  IF masked = 1 THEN [queue |-> queue, ret |-> 0]
        ELSE IF del_mode = APIC_FIXED_DELIVERY THEN add_apic_irq_entry(queue, vec_num)
        ELSE [queue |-> queue, ret |-> -1]

\* apic_inject_timer_intr: drains the queue (apic_intr_pending), then raises
\* the timer vector
apic_inject_timer_intr(s, c) ==
    LET t == apic_intr_pending(s, c)
        e == activate_internal_irq(t.irq_queue[c], t.regs[c], "APIC_TMR_INT")
    IN  [t EXCEPT !.irq_queue[c] = e.queue,
                  !.last = Call("apic_inject_timer_intr", c, lvt_vec(t.regs[c][800]), e.ret, << >>)]

(***************************************************************************)
(* Timer                                                                   *)
(***************************************************************************)
\* the number a 32-bit word below 2^31 stands for
ValOf(w) == w[1] + (256 * w[2]) + (65536 * w[3]) + (16777216 * w[4])

\* tmr_vec_tbl.tmr_mode, bit 17 of the timer entry: one-shot 0, periodic 1
APIC_TMR_ONESHOT == 0
APIC_TMR_PERIODIC == 1
tmr_mode(val) == (val[3] \div 2) % 2

\* shift_num for the divide configuration byte, -1 for an invalid one
ShiftNum(tmr_div) ==
    CASE tmr_div = 11 -> 0
      [] tmr_div = 0 -> 1
      [] tmr_div = 1 -> 2
      [] tmr_div = 2 -> 3
      [] tmr_div = 3 -> 4
      [] tmr_div = 8 -> 5
      [] tmr_div = 9 -> 6
      [] tmr_div = 10 -> 7
      [] OTHER -> -1

\* PeriodicReload that restarts the count at tmr_init_cnt and counts only
\* the whole periods
PeriodicReload_full_period(init_cnt, tmr_ticks, missed) ==
    [cur_cnt |-> init_cnt, missed |-> missed + (tmr_ticks \div init_cnt)]

\* the periodic branch of apic_update_time: tmr_ticks are the ticks left
\* after the expiry
PeriodicReload(init_cnt, tmr_ticks, missed) ==
    LET queued_ints == tmr_ticks \div init_cnt
    IN  [cur_cnt |-> init_cnt - (tmr_ticks % init_cnt), missed |-> missed + queued_ints]

\* apic_update_time; enqueue_missed stands for a build with
\* V3_CONFIG_APIC_ENQUEUE_MISSED_TMR_IRQS
apic_update_time(s, c, cpu_cycles, enqueue_missed) ==
    LET init_cnt == ValOf(s.regs[c][TMR_INIT_CNT_OFFSET])
        cur_cnt == ValOf(s.regs[c][TMR_CUR_CNT_OFFSET])
        mode == tmr_mode(s.regs[c][800])
        shift_num == ShiftNum(s.regs[c][992][1])
        tmr_ticks == cpu_cycles \div Pow2(shift_num)
        Ret(t) == [t EXCEPT !.last = Call("apic_update_time", c, cpu_cycles, 0, << >>)]
    IN  IF (init_cnt = 0) \/ (mode = APIC_TMR_ONESHOT /\ cur_cnt = 0) THEN Ret(s)
        ELSE IF shift_num = -1 THEN Ret(s)
        ELSE IF tmr_ticks < cur_cnt
        THEN LET t == [s EXCEPT !.regs[c][TMR_CUR_CNT_OFFSET] = W32(cur_cnt - tmr_ticks)]
             IN  IF enqueue_missed /\ (t.missed_ints[c] # 0)
                 THEN LET p == apic_intr_pending(t, c)
                      IN  IF p.last.ret = 0
                          THEN Ret([apic_inject_timer_intr(p, c)
                                       EXCEPT !.missed_ints[c] = @ - 1])
                          ELSE Ret(p)
                 ELSE Ret(t)
        ELSE LET t == apic_inject_timer_intr(
                          [s EXCEPT !.regs[c][TMR_CUR_CNT_OFFSET] = W32(0)], c)
                 r == PeriodicReload(init_cnt, tmr_ticks - cur_cnt, t.missed_ints[c])
             IN  IF mode = APIC_TMR_PERIODIC
                 THEN Ret([t EXCEPT !.regs[c][TMR_CUR_CNT_OFFSET] = W32(r.cur_cnt),
                                    !.missed_ints[c] = r.missed])
                 ELSE Ret(t)

(***************************************************************************)
(* Actions: one per entry point of the device.                             *)
(***************************************************************************)
\* the IRQ queues stay within the explored length
QueueBound(s) == \A a \in Apics : Len(s.irq_queue[a]) <= MaxQueue

GenIpi(vector, mode, logical, shorthand, dst) ==
    [vector |-> vector, mode |-> mode, logical |-> logical, trigger_mode |-> 0,
     dst_shorthand |-> shorthand, dst |-> dst]

(***************************************************************************)
(* Spec: the interrupt path of a LAPIC (raise, IPI, timer, drain, begin,   *)
(* EOI).  Every entry point is called for every LAPIC; the interrupt paths *)
(* of two LAPICs share no state, so they are explored one LAPIC at a time: *)
(* a call for LAPIC c is taken only if it leaves every other LAPIC in its  *)
(* reset state.                                                            *)
(***************************************************************************)
AtReset(s, a) ==
    /\ s.irq_queue[a] = << >>
    /\ s.int_req_reg[a] = ZeroReg
    /\ s.int_svc_reg[a] = ZeroReg
    /\ s.int_en_reg[a] = FullReg
    /\ s.int_cmd[a] = ResetIcr
    /\ s.regs[a] = ResetRegs

Focused(c, t) ==
    \E n \in {t} : /\ QueueBound(n)
                   /\ \A a \in Apics \ {c} : AtReset(n, a)
                   /\ Becomes(n)

\* interrupt numbers handed to v3_apic_raise_intr
RaiseIrqs == {15, 16, 255}
\* vectors handed to apic_begin_irq
BeginIrqs == {16, 255}
\* values written to the top IER subword: vector 255 disabled, all enabled
IerVals == {<<255, 255, 255, 127>>, <<255, 255, 255, 255>>}
\* ICR low words written by a guest: a fixed physical IPI of vector 0 to the
\* LAPIC named by ICR high
IcrLoVals == {W32(0)}
\* timer LVT values written by a guest (masked at reset): unmasked, vector 15
TmrLvtVals == {W32(15)}
\* synthetic IPIs: a lowest-priority IPI of vector 255 to LAPIC id 1, a fixed
\* broadcast of vector 15
GenIpis == {GenIpi(255, APIC_LOWEST_DELIVERY, APIC_DEST_PHYSICAL, APIC_SHORTHAND_NONE, 1),
            GenIpi(15, APIC_FIXED_DELIVERY, APIC_DEST_PHYSICAL, APIC_SHORTHAND_ALL, 0),
            GenIpi(15, APIC_LOWEST_DELIVERY, APIC_DEST_LOGICAL, APIC_SHORTHAND_NONE, 255)}

Raise == \E c \in Apics, irq \in RaiseIrqs, s \in {State} : Focused(c, v3_apic_raise_intr(s, irq, c))
Pending == \E c \in Apics, s \in {State} : Focused(c, apic_intr_pending(s, c))
GetNumber == \E c \in Apics, s \in {State} : Focused(c, apic_get_intr_number(s, c))
Begin == \E c \in Apics, irq \in BeginIrqs, s \in {State} : Focused(c, apic_begin_irq(s, c, irq))
WriteEoi == \E c \in Apics, v \in {W32(0), W32(7)}, s \in {State} : Focused(c, apic_write(s, c, EOI_OFFSET, v, 4))
WriteIer == \E c \in Apics, v \in IerVals, s \in {State} : Focused(c, apic_write(s, c, IER_OFFSET0 + 112, v, 4))
WriteIcrLo == \E c \in Apics, v \in IcrLoVals, s \in {State} : Focused(c, apic_write(s, c, INT_CMD_LO_OFFSET, v, 4))
WriteTmrLvt == \E c \in Apics, v \in TmrLvtVals, s \in {State} : Focused(c, apic_write(s, c, 800, v, 4))
TimerIntr == \E c \in Apics, s \in {State} : Focused(c, apic_inject_timer_intr(s, c))
Ipi == \E c \in Apics, ipi \in GenIpis, s \in {State} : Focused(c, v3_apic_send_ipi(s, ipi))

Next ==
    \/ Raise
    \/ Pending
    \/ GetNumber
    \/ Begin
    \/ WriteEoi
    \/ WriteIer
    \/ WriteIcrLo
    \/ WriteTmrLvt
    \/ TimerIntr
    \/ Ipi

Spec == Init /\ [][Next]_vars

(***************************************************************************)
(* Properties of the interrupt path, checked under Spec.                   *)
(***************************************************************************)
IRR(a) == BitsOf(int_req_reg[a])
ISR(a) == BitsOf(int_svc_reg[a])
IER(a, v) == Bit(int_en_reg[a], v)

\* every variable but `last` and the listed ones is unchanged
OthersUnchanged ==
    UNCHANGED <<base_addr_msr, lapic_id, task_prio, log_dst, dst_fmt, ipi_state, core>>

\* C1 (as stated): for every LAPIC and every vector v, IRR[v] and ISR[v] are
\* never both set.
C1_NeverBoth == \A a \in Apics : IRR(a) \cap ISR(a) = {}

\* C1 (amended): IRR[v] and ISR[v] come to be both set only when a queue drain
\* activates v while v is already in service and not requested; apic_begin_irq
\* and an EOI write never make them both set, and apic_begin_irq(v) leaves
\* IRR[v] clear.
C1_BothOnlyByDrain ==
    [][\A a \in Apics :
          /\ \A v \in (IRR(a) \cap ISR(a))' \ (IRR(a) \cap ISR(a)) :
                /\ v \in ISR(a) \ IRR(a)
                /\ v \in Range(irq_queue[a])
                /\ last'.op \in {"apic_intr_pending", "apic_inject_timer_intr"}
                /\ last'.apic = a
          /\ (last'.op = "apic_begin_irq" /\ last'.apic = a) => last'.arg \notin IRR(a)']_vars

\* C1 witness: a vector is requested again while it is in service
C1_Witness ==
    \E a \in Apics : /\ 16 \in IRR(a) \cap ISR(a)
                     /\ last.op = "apic_intr_pending" /\ last.apic = a

\* C2: for every LAPIC and every vector v <= 15, IRR[v] is clear and no IRQ
\* queue holds v, in every state; and every attempt to raise a vector v <= 15
\* (v3_apic_raise_intr, a fixed or lowest-priority IPI sent by v3_apic_send_ipi
\* or by an ICR write, the timer's LVT source) leaves every queue without a
\* new entry.
C2_Reserved ==
    [][/\ \A a \in Apics : /\ IRR(a)' \cap (0 .. 15) = {}
                           /\ Range(irq_queue[a])' \cap (0 .. 15) = {}
       /\ (last'.op = "v3_apic_raise_intr" /\ U8(last'.arg) <= 15)
             => irq_queue' = irq_queue
       /\ (/\ last'.op = "v3_apic_send_ipi"
           /\ icr_vec(last'.arg) <= 15
           /\ icr_del_mode(last'.arg) \in {APIC_FIXED_DELIVERY, APIC_LOWEST_DELIVERY})
             => irq_queue' = irq_queue
       /\ \A c \in Apics :
             (/\ last'.op = "apic_write" /\ last'.apic = c
              /\ last'.arg = INT_CMD_LO_OFFSET
              /\ icr_vec(int_cmd[c])' <= 15
              /\ icr_del_mode(int_cmd[c])' \in {APIC_FIXED_DELIVERY, APIC_LOWEST_DELIVERY})
                => irq_queue' = irq_queue
       /\ \A c \in Apics :
             (/\ last'.op = "apic_inject_timer_intr" /\ last'.apic = c
              /\ last'.arg <= 15)
                => /\ irq_queue'[c] = << >>
                   /\ \A a \in Apics \ {c} : irq_queue'[a] = irq_queue[a]]_vars

\* C2 witness: after vector 255 was queued, vector 15 was raised and refused
C2_Witness ==
    \E a \in Apics : /\ last.op = "v3_apic_raise_intr" /\ last.apic = a /\ last.arg = 15
                     /\ irq_queue[a] = <<255>>

\* C3: apic_intr_pending first drains the LAPIC's IRQ queue into IRR (every
\* queued vector that is enabled becomes requested, the queue is left empty)
\* and then returns 1 if and only if the highest IRR vector is strictly greater
\* than the highest ISR vector, -1 standing for an empty bitmap.
C3_Pending ==
    [][\A c \in Apics :
          (last'.op = "apic_intr_pending" /\ last'.apic = c)
             => /\ irq_queue'[c] = << >>
                /\ IRR(c)' = IRR(c) \cup {v \in Range(irq_queue[c]) : IER(c, v)}
                /\ ISR(c)' = ISR(c)
                /\ last'.ret \in {0, 1}
                /\ (last'.ret = 1) <=> (Highest(IRR(c))' > Highest(ISR(c))')]_vars

\* C3 witness: apic_intr_pending returned false with a vector requested, the
\* same vector being in service
C3_Witness ==
    \E a \in Apics : /\ last.op = "apic_intr_pending" /\ last.apic = a /\ last.ret = 0
                     /\ IRR(a) = {255} /\ ISR(a) = {255}

\* C4: apic_get_intr_number returns the highest IRR vector when it is strictly
\* greater than the highest ISR vector (or ISR is empty) and -1 otherwise; it
\* never returns a vector less than or equal to a vector in service; and
\* called right after apic_intr_pending it returns a vector different from -1
\* exactly when apic_intr_pending returned true.
C4_GetIntrNumber ==
    [][\A c \in Apics :
          (last'.op = "apic_get_intr_number" /\ last'.apic = c)
             => /\ last'.ret = IF Highest(IRR(c)) > Highest(ISR(c))
                               THEN Highest(IRR(c)) ELSE -1
                /\ (last'.ret # -1) => \A w \in ISR(c) : last'.ret > w
                /\ (last.op = "apic_intr_pending" /\ last.apic = c)
                      => ((last'.ret # -1) <=> (last.ret = 1))
                /\ UNCHANGED <<int_req_reg, int_svc_reg, irq_queue>>]_vars

\* C4 witness: apic_get_intr_number returned 255 while 16 was in service
C4_Witness ==
    \E a \in Apics : /\ last.op = "apic_get_intr_number" /\ last.apic = a /\ last.ret = 255
                     /\ 16 \in ISR(a)

\* the vectors the round-trip properties are evaluated for
RoundTripVecs == {16, 17, 255}

\* raise v and drain, begin(v), then a write to the EOI register, from state s
RoundTrip(s, a, v) ==
    apic_write(apic_begin_irq(apic_intr_pending(v3_apic_raise_intr(s, v, a), a), a, v),
               a, EOI_OFFSET, W32(0), 4)

\* C5 (as stated): for a LAPIC whose IER bit for v is set (v > 15), in any
\* state, raising v and draining, then begin(v), then an EOI write leaves both
\* IRR[v] and ISR[v] clear.
C5_RoundTripAnyState ==
    \A a \in Apics, v \in RoundTripVecs :
        IER(a, v) =>
            \E t \in {RoundTrip(State, a, v)} :
                /\ ~Bit(t.int_req_reg[a], v)
                /\ ~Bit(t.int_svc_reg[a], v)

\* C5 (amended): for a LAPIC whose IER bit for v is set (v > 15), raising v and
\* draining, then begin(v), then an EOI write leaves IRR[v] clear, and leaves
\* ISR[v] clear exactly when no vector greater than v was in service: the EOI
\* retires the highest vector in service, which is v only then.
C5_RoundTrip ==
    \A a \in Apics, v \in RoundTripVecs :
        IER(a, v) =>
            \E t \in {RoundTrip(State, a, v)} :
                /\ ~Bit(t.int_req_reg[a], v)
                /\ (~Bit(t.int_svc_reg[a], v)) <=> (\A w \in ISR(a) : w <= v)
                /\ t.last.ret = 4

\* C5 witness: an EOI write retired vector 255, which was raised, drained and
\* begun while 16 was in service; 16 is still in service
C5_Witness ==
    \E a \in Apics : /\ last.op = "apic_write" /\ last.apic = a /\ last.arg = EOI_OFFSET
                     /\ last.ret = 4
                     /\ IER(a, 255) /\ 255 \notin IRR(a)
                     /\ ISR(a) = {16}

\* C6: raising the same enabled vector v twice with no begin(v) in between sets
\* IRR[v] once: the first activation returns 1 and sets IRR[v], the second
\* returns 0 and changes no bitmap; at the entry points, the second raise and
\* drain leaves IRR, ISR and IER as the first left them.
C6_RaiseTwice ==
    \A a \in Apics, v \in RoundTripVecs :
        (IER(a, v) /\ v \notin IRR(a)) =>
            \E first \in {activate_apic_irq(int_req_reg[a], int_en_reg[a], v)},
               s1 \in {apic_intr_pending(v3_apic_raise_intr(State, v, a), a)} :
            \E second \in {activate_apic_irq(first.req, int_en_reg[a], v)},
               s2 \in {apic_intr_pending(v3_apic_raise_intr(s1, v, a), a)} :
                /\ first.ret = 1
                /\ BitsOf(first.req) = IRR(a) \cup {v}
                /\ second.ret = 0
                /\ second.req = first.req
                /\ Bit(s1.int_req_reg[a], v)
                /\ s2.int_req_reg = s1.int_req_reg
                /\ s2.int_svc_reg = s1.int_svc_reg
                /\ s2.int_en_reg = s1.int_en_reg
                /\ s2.irq_queue[a] = << >>

\* C6 witness: vector 16 is enabled, not requested, and queued twice
C6_Witness ==
    \E a \in Apics : /\ irq_queue[a] = <<16, 16>>
                     /\ IER(a, 16) /\ 16 \notin IRR(a)

\* C7: a 4-byte write of any value to the EOI register clears the highest set
\* bit of ISR and no other bit; when ISR is empty it changes nothing; IRR, the
\* IRQ queue and every other register are unchanged in both cases.
C7_Eoi ==
    [][\A c \in Apics :
          (last'.op = "apic_write" /\ last'.apic = c /\ last'.arg = EOI_OFFSET)
             => /\ last'.ret = 4
                /\ ISR(c)' = ISR(c) \ {Highest(ISR(c))}
                /\ \A a \in Apics \ {c} : int_svc_reg'[a] = int_svc_reg[a]
                /\ UNCHANGED <<int_req_reg, irq_queue, int_en_reg, int_cmd, regs>>
                /\ OthersUnchanged]_vars

\* C7 witness: an EOI write cleared 255 and left 16 in service, with a vector
\* requested and a vector queued
C7_Witness ==
    \E a \in Apics : /\ last.op = "apic_write" /\ last.apic = a /\ last.arg = EOI_OFFSET
                     /\ ISR(a) = {16}
                     /\ IRR(a) # {} /\ irq_queue[a] # << >>

\* C8: apic_begin_irq(v) clears IRR[v] and sets ISR[v] in one step if IRR[v]
\* was set; if IRR[v] was clear it changes no LAPIC state at all; no other
\* vector's bit and no other LAPIC changes in either case.
C8_Begin ==
    [][\A c \in Apics :
          (last'.op = "apic_begin_irq" /\ last'.apic = c)
             => LET v == last'.arg
                IN  /\ v \in IRR(c) => /\ IRR(c)' = IRR(c) \ {v}
                                       /\ ISR(c)' = ISR(c) \cup {v}
                    /\ v \notin IRR(c) => /\ int_req_reg' = int_req_reg
                                          /\ int_svc_reg' = int_svc_reg
                    /\ \A a \in Apics \ {c} : /\ int_req_reg'[a] = int_req_reg[a]
                                              /\ int_svc_reg'[a] = int_svc_reg[a]
                    /\ UNCHANGED <<irq_queue, int_en_reg, int_cmd, regs>>
                    /\ OthersUnchanged]_vars

\* C8 witness: apic_begin_irq(255) moved 255 from IRR to ISR beside vector 16
C8_Witness ==
    \E a \in Apics : /\ last.op = "apic_begin_irq" /\ last.apic = a /\ last.arg = 255
                     /\ 255 \in ISR(a) /\ 255 \notin IRR(a)
                     /\ 16 \in IRR(a) \cup ISR(a)

(***************************************************************************)
(* SpecIpi: IPI routing and the INIT / Startup life cycle.  Guests rewrite *)
(* their LAPIC ids, the host and the guests send physical IPIs.  Delivery  *)
(* to one LAPIC reads and writes no delivery state of another, so the      *)
(* queue, life cycle and ICR of one LAPIC at a time leave their reset      *)
(* values, under every assignment of the ids.                              *)
(***************************************************************************)
Quiet(s, a) ==
    /\ AtReset(s, a)
    /\ s.ipi_state[a] = "INIT_ST"
    /\ s.core[a] = InitCore(a)

FocusedIpi(t) ==
    \E n \in {t} : /\ QueueBound(n)
                   /\ \E c \in Apics : \A a \in Apics \ {c} : Quiet(n, a)
                   /\ Becomes(n)

\* values guests write to their APIC id register
IdVals == {W32(0), W32(1)}
\* destination fields of the IPIs: every LAPIC index and one id beyond
DstIds == 0 .. NumApics
\* vectors of the Startup IPIs: a page below 16 and vector 16
IpiVecs == {1, 16}
\* delivery mode and vector of the IPIs the host sends
HostIpis == {<<APIC_FIXED_DELIVERY, 16>>, <<APIC_INIT_DELIVERY, 0>>} \cup
            {<<APIC_SIPI_DELIVERY, v>> : v \in IpiVecs}
\* ICR words written by a guest
IcrHiVals == {MkIcrHi(0), MkIcrHi(1)}
IcrLoIpis == {MkIcrLo(16, APIC_FIXED_DELIVERY, APIC_DEST_PHYSICAL, 0, APIC_SHORTHAND_NONE),
              MkIcrLo(0, APIC_INIT_DELIVERY, APIC_DEST_PHYSICAL, 0, APIC_SHORTHAND_NONE)}

SetApicId ==
    \E c \in Apics, v \in IdVals, s \in {State} :
        FocusedIpi(apic_write(s, c, APIC_ID_OFFSET, v, 4))
SendIpi ==
    \E m \in HostIpis, d \in DstIds, s \in {State} :
        FocusedIpi(v3_apic_send_ipi(s, GenIpi(m[2], m[1], APIC_DEST_PHYSICAL, APIC_SHORTHAND_NONE, d)))
SetIcrHi ==
    \E c \in Apics, v \in IcrHiVals, s \in {State} :
        FocusedIpi(apic_write(s, c, INT_CMD_HI_OFFSET, v, 4))
SendIcr ==
    \E c \in Apics, v \in IcrLoIpis, s \in {State} :
        FocusedIpi(apic_write(s, c, INT_CMD_LO_OFFSET, v, 4))

NextIpi ==
    \/ SetApicId
    \/ SendIpi
    \/ SetIcrHi
    \/ SendIcr

SpecIpi == Init /\ [][NextIpi]_vars

(***************************************************************************)
(* Properties of IPI routing and of the life cycle, checked under SpecIpi. *)
(***************************************************************************)
\* a physical IPI with no shorthand, sent by the host
Send(s, mode, vec, d) ==
    v3_apic_send_ipi(s, GenIpi(vec, mode, APIC_DEST_PHYSICAL, APIC_SHORTHAND_NONE, d))

\* state s differs from the current state at most in the life cycle and the
\* vCPU of LAPIC a
OnlyLifeCycleOf(s, a) ==
    /\ s.irq_queue = irq_queue
    /\ s.int_req_reg = int_req_reg /\ s.int_svc_reg = int_svc_reg /\ s.int_en_reg = int_en_reg
    /\ s.lapic_id = lapic_id /\ s.int_cmd = int_cmd /\ s.regs = regs
    /\ \A b \in Apics \ {a} : s.ipi_state[b] = ipi_state[b] /\ s.core[b] = core[b]

\* C9: for a LAPIC in INIT_ST, an INIT IPI followed by a Startup IPI leaves it
\* in STARTED, its vCPU reset with the Startup vector and RUNNING, and no
\* vector enqueued; an extra INIT after the first leaves it in SIPI, and the
\* Startup IPI then starts it all the same.  For a LAPIC in STARTED, a Startup
\* IPI followed by an INIT IPI changes nothing: it stays STARTED.
C9_InitStartup ==
    \A a \in Apics, d \in DstIds, vec \in IpiVecs :
        (lapic_id[a] = W32(d) /\ \A b \in Apics \ {a} : lapic_id[b] # W32(d)) =>
            /\ ipi_state[a] = "INIT_ST" =>
                  \E s1 \in {Send(State, APIC_INIT_DELIVERY, 0, d)} :
                  \E s2 \in {Send(s1, APIC_SIPI_DELIVERY, vec, d)},
                     s1b \in {Send(s1, APIC_INIT_DELIVERY, 0, d)} :
                  \E s3 \in {Send(s1b, APIC_SIPI_DELIVERY, vec, d)} :
                      /\ s1.ipi_state[a] = "SIPI" /\ s1.core = core
                      /\ s2.ipi_state[a] = "STARTED"
                      /\ s2.core[a] = [core_run_state |-> "CORE_RUNNING",
                                       reset_vector |-> vec,
                                       num_resets |-> core[a].num_resets + 1]
                      /\ s1b.ipi_state[a] = "SIPI" /\ s1b.core = core
                      /\ s3.ipi_state = s2.ipi_state /\ s3.core = s2.core
                      /\ \A t \in {s1, s2, s1b, s3} : OnlyLifeCycleOf(t, a) /\ t.last.ret = 0
            /\ ipi_state[a] = "STARTED" =>
                  \E t1 \in {Send(State, APIC_SIPI_DELIVERY, vec, d)} :
                  \E t2 \in {Send(t1, APIC_INIT_DELIVERY, 0, d)} :
                      \A t \in {t1, t2} : /\ t.ipi_state = ipi_state
                                          /\ t.core = core
                                          /\ OnlyLifeCycleOf(t, a)
                                          /\ t.last.dests = <<a>>

\* C9 witness: a Startup IPI of vector 16 started LAPIC 1
C9_Witness ==
    /\ last.op = "v3_apic_send_ipi"
    /\ icr_del_mode(last.arg) = APIC_SIPI_DELIVERY
    /\ last.dests = <<1>>
    /\ ipi_state[1] = "STARTED"
    /\ core[1] = [core_run_state |-> "CORE_RUNNING", reset_vector |-> 16, num_resets |-> 1]
    /\ irq_queue[1] = << >>

\* the effect of a physical IPI with no shorthand and interrupt command icr,
\* sent by `writer` (NULL for the host)
PhysicalRouted(icr, writer) ==
    LET d == icr_dst(icr)
        vec == icr_vec(icr)
        mode == icr_del_mode(icr)
        holders == {i \in Apics : lapic_id[i] = W32(d)}
        IcrOnly == /\ \A a \in Apics \ {writer} : int_cmd'[a] = int_cmd[a]
                   /\ UNCHANGED <<int_req_reg, int_svc_reg, int_en_reg, regs>>
                   /\ OthersUnchanged
    IN  IF holders = {}
        THEN /\ last'.ret = -1
             /\ last'.dests = << >>
             /\ UNCHANGED <<irq_queue, ipi_state, core, lapic_id>>
             /\ IcrOnly
        ELSE \E i \in holders :
                /\ last'.dests = <<i>>
                /\ \A a \in Apics \ {i} : /\ irq_queue'[a] = irq_queue[a]
                                          /\ ipi_state'[a] = ipi_state[a]
                                          /\ core'[a] = core[a]
                /\ (mode = APIC_FIXED_DELIVERY /\ vec > 15)
                      => irq_queue'[i] = Append(irq_queue[i], vec)
                /\ (mode = APIC_INIT_DELIVERY /\ ipi_state[i] = "INIT_ST")
                      => ipi_state'[i] = "SIPI"
                /\ (mode = APIC_SIPI_DELIVERY /\ ipi_state[i] = "SIPI")
                      => ipi_state'[i] = "STARTED"
                /\ (mode # APIC_NMI_DELIVERY) => last'.ret # -1

\* C10: a physical IPI with no shorthand and destination field d is delivered
\* to exactly one LAPIC, one whose id register equals d, whenever there is such
\* a LAPIC, d = 0 included; when no LAPIC has id d the routing returns -1 and no
\* queue and no LAPIC state changes (an ICR write has stored the written
\* command before it routes).
C10_PhysicalRouting ==
    [][/\ (/\ last'.op = "v3_apic_send_ipi"
           /\ icr_dst_shorthand(last'.arg) = APIC_SHORTHAND_NONE
           /\ icr_dst_mode(last'.arg) = APIC_DEST_PHYSICAL)
             => /\ PhysicalRouted(last'.arg, NULL)
                /\ int_cmd' = int_cmd
       /\ \A c \in Apics :
             (/\ last'.op = "apic_write" /\ last'.apic = c
              /\ last'.arg = INT_CMD_LO_OFFSET
              /\ icr_dst_shorthand(int_cmd[c])' = APIC_SHORTHAND_NONE
              /\ icr_dst_mode(int_cmd[c])' = APIC_DEST_PHYSICAL)
                => /\ PhysicalRouted(int_cmd'[c], c)
                   /\ int_cmd'[c].hi = int_cmd[c].hi]_vars

\* C10 witness: LAPIC 0 alone has id 0 and the IPI to id 0 was queued at it
C10_Witness ==
    /\ last.op = "v3_apic_send_ipi" /\ icr_dst(last.arg) = 0
    /\ lapic_id[0] = W32(0) /\ lapic_id[1] = W32(1)
    /\ last.dests = <<0>> /\ irq_queue[0] = <<16>>

(***************************************************************************)
(* SpecShort: IPIs with a destination shorthand and IPIs of the delivery   *)
(* modes deliver_ipi does not support, sent by the host and by guests      *)
(* through their ICR.  One guest at a time has written its ICR.            *)
(***************************************************************************)
FocusedShort(t) ==
    \E n \in {t} : /\ QueueBound(n)
                   /\ \E c \in Apics : \A a \in Apics \ {c} : n.int_cmd[a] = ResetIcr
                   /\ Becomes(n)

\* delivery mode, destination mode and shorthand of the commands
ShortCmds == {<<APIC_FIXED_DELIVERY, APIC_DEST_PHYSICAL, APIC_SHORTHAND_ALL>>,
              <<APIC_FIXED_DELIVERY, APIC_DEST_LOGICAL, APIC_SHORTHAND_ALL_BUT_ME>>,
              <<APIC_FIXED_DELIVERY, APIC_DEST_PHYSICAL, APIC_SHORTHAND_SELF>>,
              <<APIC_FIXED_DELIVERY, APIC_DEST_LOGICAL, APIC_SHORTHAND_SELF>>,
              <<APIC_EXTINT_DELIVERY, APIC_DEST_LOGICAL, APIC_SHORTHAND_ALL>>,
              <<APIC_EXTINT_DELIVERY, APIC_DEST_PHYSICAL, APIC_SHORTHAND_NONE>>,
              <<APIC_NMI_DELIVERY, APIC_DEST_PHYSICAL, APIC_SHORTHAND_ALL>>,
              <<APIC_SMI_DELIVERY, APIC_DEST_PHYSICAL, APIC_SHORTHAND_NONE>>,
              <<APIC_RES1_DELIVERY, APIC_DEST_PHYSICAL, APIC_SHORTHAND_SELF>>}
\* destination fields of the host's commands
ShortDsts == {0, 255}

HostShort ==
    \E m \in ShortCmds, d \in ShortDsts, s \in {State} :
        FocusedShort(v3_apic_send_ipi(s, GenIpi(16, m[1], m[2], m[3], d)))
GuestShort ==
    \E c \in Apics, m \in ShortCmds, s \in {State} :
        FocusedShort(apic_write(s, c, INT_CMD_LO_OFFSET, MkIcrLo(16, m[1], m[2], 0, m[3]), 4))

NextShort ==
    \/ HostShort
    \/ GuestShort

SpecShort == Init /\ [][NextShort]_vars

(***************************************************************************)
(* Properties of the shorthands and of the delivery modes, checked under   *)
(* SpecShort.                                                              *)
(***************************************************************************)
\* the effect of an IPI with shorthand all or all-but-me and interrupt command
\* icr, sent by src (NULL for the host)
BroadcastRouted(icr, src) ==
    LET vec == icr_vec(icr)
        mode == icr_del_mode(icr)
        targets == IF icr_dst_shorthand(icr) = APIC_SHORTHAND_ALL
                   THEN Apics ELSE Apics \ {src}
    IN  /\ (mode \in {APIC_FIXED_DELIVERY, APIC_EXTINT_DELIVERY})
              => /\ Range(last'.dests) = targets
                 /\ Len(last'.dests) = Cardinality(targets)
                 /\ last'.ret # -1
        /\ (mode = APIC_FIXED_DELIVERY)
              => \A a \in Apics :
                    irq_queue'[a] = IF a \in targets THEN Append(irq_queue[a], vec)
                                    ELSE irq_queue[a]
        /\ (icr_dst_shorthand(icr) = APIC_SHORTHAND_ALL_BUT_ME /\ src # NULL)
              => /\ irq_queue'[src] = irq_queue[src]
                 /\ ipi_state'[src] = ipi_state[src]
                 /\ core'[src] = core[src]
                 /\ int_req_reg'[src] = int_req_reg[src]
                 /\ int_svc_reg'[src] = int_svc_reg[src]
                 /\ int_cmd'[src].hi = int_cmd[src].hi

\* C11: an IPI with shorthand all is delivered to every LAPIC, the source
\* included; with shorthand all-but-me it is delivered to every LAPIC except the
\* source, whose queue and state are unchanged; the set of destinations is the
\* same whatever the destination mode and the destination field.
C11_Shorthands ==
    [][/\ (/\ last'.op = "v3_apic_send_ipi"
           /\ icr_dst_shorthand(last'.arg) \in {APIC_SHORTHAND_ALL, APIC_SHORTHAND_ALL_BUT_ME})
             => BroadcastRouted(last'.arg, NULL)
       /\ \A c \in Apics :
             (/\ last'.op = "apic_write" /\ last'.apic = c
              /\ last'.arg = INT_CMD_LO_OFFSET
              /\ icr_dst_shorthand(int_cmd[c])' \in {APIC_SHORTHAND_ALL, APIC_SHORTHAND_ALL_BUT_ME})
                => BroadcastRouted(int_cmd'[c], c)]_vars

\* C11 witness: LAPIC 0 sent vector 16 to all but itself in logical mode, and
\* every other LAPIC has it queued while LAPIC 0 has nothing queued
C11_Witness ==
    /\ last.op = "apic_write" /\ last.apic = 0 /\ last.arg = INT_CMD_LO_OFFSET
    /\ icr_dst_shorthand(int_cmd[0]) = APIC_SHORTHAND_ALL_BUT_ME
    /\ icr_dst_mode(int_cmd[0]) = APIC_DEST_LOGICAL
    /\ Range(last.dests) = Apics \ {0}
    /\ irq_queue[0] = << >>
    /\ \A a \in Apics \ {0} : irq_queue[a] = <<16>>

(***************************************************************************)
(* SpecLogical: logical destinations.  Guests write their logical          *)
(* destination, destination format, task priority and interrupt command    *)
(* registers; the host and the guests send IPIs with no shorthand.  The    *)
(* registers leave their reset values two at a time, and the queues are    *)
(* not drained: MaxQueue bounds the vectors queued on all LAPICs together. *)
(***************************************************************************)
\* the registers routing reads
RouteRegs == {"log_dst", "dst_fmt", "task_prio", "int_cmd.hi", "int_cmd.lo"}

\* the registers routing reads that differ from their reset values
AwayFromReset(s) ==
    {p \in Apics \X RouteRegs :
        CASE p[2] = "log_dst" -> s.log_dst[p[1]] # W32(0)
          [] p[2] = "dst_fmt" -> s.dst_fmt[p[1]] # <<255, 255, 255, 255>>
          [] p[2] = "task_prio" -> s.task_prio[p[1]] # W32(0)
          [] p[2] = "int_cmd.hi" -> s.int_cmd[p[1]].hi # ResetIcr.hi
          [] p[2] = "int_cmd.lo" -> s.int_cmd[p[1]].lo # ResetIcr.lo}

\* the number of vectors queued on LAPICs i, i + 1, ...
RECURSIVE Queued(_, _)
Queued(s, i) == IF i >= NumApics THEN 0 ELSE Len(s.irq_queue[i]) + Queued(s, i + 1)

FocusedLogical(t) ==
    \E n \in {t} :
        /\ Queued(n, 0) <= MaxQueue
        /\ \E away \in {AwayFromReset(n)} :
              \/ away = {}
              \/ \E p \in away, q \in away : away = {p, q}
        /\ Becomes(n)

\* logical ids 0x11 and 0x12
LdrVals == {<<0, 0, 0, 17>>, <<0, 0, 0, 18>>}
\* destination formats: cluster (model 0x0) and a model that is neither flat
\* nor cluster (0x5)
DfrVals == {<<255, 255, 255, 15>>, <<255, 255, 255, 95>>}
TprVals == {W32(16)}
\* message destination addresses: broadcast, 0x11 and 0x13
MdaVals == {255, 17, 19}
LogicalHiVals == {MkIcrHi(255), MkIcrHi(17)}
LogicalLoVals == {MkIcrLo(16, APIC_FIXED_DELIVERY, APIC_DEST_LOGICAL, 0, APIC_SHORTHAND_NONE),
                  MkIcrLo(16, APIC_LOWEST_DELIVERY, APIC_DEST_LOGICAL, 0, APIC_SHORTHAND_NONE),
                  MkIcrLo(16, APIC_FIXED_DELIVERY, APIC_DEST_PHYSICAL, 0, APIC_SHORTHAND_NONE),
                  MkIcrLo(16, APIC_NMI_DELIVERY, APIC_DEST_LOGICAL, 0, APIC_SHORTHAND_NONE)}

WriteLdr ==
    \E c \in Apics, v \in LdrVals, s \in {State} :
        FocusedLogical(apic_write(s, c, LDR_OFFSET, v, 4))
WriteDfr ==
    \E c \in Apics, v \in DfrVals, s \in {State} :
        FocusedLogical(apic_write(s, c, DFR_OFFSET, v, 4))
WriteTpr ==
    \E c \in Apics, v \in TprVals, s \in {State} :
        FocusedLogical(apic_write(s, c, TPR_OFFSET, v, 4))
WriteLogicalHi ==
    \E c \in Apics, v \in LogicalHiVals, s \in {State} :
        FocusedLogical(apic_write(s, c, INT_CMD_HI_OFFSET, v, 4))
WriteLogicalLo ==
    \E c \in Apics, v \in LogicalLoVals, s \in {State} :
        FocusedLogical(apic_write(s, c, INT_CMD_LO_OFFSET, v, 4))
HostLogical ==
    \E mode \in {APIC_FIXED_DELIVERY, APIC_LOWEST_DELIVERY}, mda \in MdaVals, s \in {State} :
        FocusedLogical(v3_apic_send_ipi(s, GenIpi(16, mode, APIC_DEST_LOGICAL,
                                                   APIC_SHORTHAND_NONE, mda)))

NextLogical ==
    \/ WriteLdr
    \/ WriteDfr
    \/ WriteTpr
    \/ WriteLogicalHi
    \/ WriteLogicalLo
    \/ HostLogical

SpecLogical == Init /\ [][NextLogical]_vars

(***************************************************************************)
(* Properties of logical destinations, checked under SpecLogical.          *)
(***************************************************************************)
\* the LAPICs for which the match predicate holds, and those for which it
\* reports an error
Matchers(mda) == {a \in Apics : should_deliver_ipi(State, a, mda) = 1}
BadFormat(mda) == {a \in Apics : should_deliver_ipi(State, a, mda) = -1}
\* the matching LAPICs the loop over the LAPICs reaches before an error
Reached(mda) == {a \in Matchers(mda) : \A b \in BadFormat(mda) : a < b}

\* vector vec is appended to the queues of the LAPICs in dsts and no other
\* queue changes
EnqueuedOn(vec, dsts) ==
    \A a \in Apics : irq_queue'[a] = IF a \in dsts THEN Append(irq_queue[a], vec)
                                     ELSE irq_queue[a]

\* the step is a logical fixed IPI with no shorthand and interrupt command icr
LogicalFixed(icr) ==
    /\ icr_dst_shorthand(icr) = APIC_SHORTHAND_NONE
    /\ icr_dst_mode(icr) = APIC_DEST_LOGICAL
    /\ icr_del_mode(icr) = APIC_FIXED_DELIVERY
    /\ icr_vec(icr) > 15

LogicalFixedRouted(icr) ==
    LET mda == icr_dst(icr)
        vec == icr_vec(icr)
    IN  /\ EnqueuedOn(vec, Reached(mda))
        /\ (BadFormat(mda) = {}) => (Range(last'.dests) = Matchers(mda) /\ last'.ret # -1)
        /\ (BadFormat(mda) # {}) => last'.ret = -1
        /\ (mda = 255 /\ \A a \in Apics : dst_fmt_model(dst_fmt[a]) = 15)
              => \A a \in Apics, n \in {State'} :
                    \E t \in {apic_intr_pending(n, a)} : Bit(t.int_req_reg[a], vec)
        /\ UNCHANGED <<int_req_reg, int_svc_reg, ipi_state, core, log_dst, dst_fmt, task_prio>>

LogicalLowest(icr) ==
    /\ icr_dst_shorthand(icr) = APIC_SHORTHAND_NONE
    /\ icr_dst_mode(icr) = APIC_DEST_LOGICAL
    /\ icr_del_mode(icr) = APIC_LOWEST_DELIVERY
    /\ icr_vec(icr) > 15

\* among the matching LAPICs, those with the smallest task priority and, of
\* these, the one of lowest index
LowestOf(mda) ==
    UNION {{a \in M : \A b \in M : /\ ~WordLess(task_prio[b], task_prio[a])
                                   /\ (task_prio[b] = task_prio[a]) => a <= b} :
           M \in {Matchers(mda)}}

\* the IPI went to the LAPICs in dsts (one or none) and to no other
DeliveredTo(icr, dsts) ==
    /\ Range(last'.dests) = dsts
    /\ Len(last'.dests) = Cardinality(dsts)
    /\ EnqueuedOn(icr_vec(icr), dsts)
    /\ UNCHANGED <<int_req_reg, int_svc_reg, ipi_state, core, log_dst, dst_fmt, task_prio>>

\* the effect of a lowest-priority IPI as the claim states it
LowestAsStated(icr) ==
    \E best \in {LowestOf(icr_dst(icr))} :
        /\ DeliveredTo(icr, best)
        /\ Cardinality(best) = (IF Matchers(icr_dst(icr)) = {} THEN 0 ELSE 1)
        /\ (best = {}) => last'.ret # -1

\* C13 (as stated): a logical lowest-priority IPI with no shorthand is
\* delivered to exactly one LAPIC, the matching one with the smallest task
\* priority and on ties the lowest index; no other queue or IRR changes; when no
\* LAPIC matches nothing is delivered and routing returns success.
C13_LowestAlways ==
    [][/\ (last'.op = "v3_apic_send_ipi" /\ LogicalLowest(last'.arg))
             => LowestAsStated(last'.arg)
       /\ \A c \in Apics :
             (/\ last'.op = "apic_write" /\ last'.apic = c
              /\ last'.arg = INT_CMD_LO_OFFSET
              /\ LogicalLowest(int_cmd[c])')
                => LowestAsStated(int_cmd'[c])]_vars

\* the effect of a lowest-priority IPI with interrupt command icr
LowestRouted(icr) ==
    IF BadFormat(icr_dst(icr)) # {}
    THEN DeliveredTo(icr, {}) /\ last'.ret = -1
    ELSE LowestAsStated(icr) /\ last'.ret # -1

\* C13 (amended): provided the match predicate reports an error for no LAPIC,
\* a logical lowest-priority IPI with no shorthand is delivered to exactly one
\* LAPIC, the matching one with the smallest task priority and on ties the
\* lowest index, no other queue or IRR changes, and when no LAPIC matches
\* nothing is delivered and routing returns success; when the predicate reports
\* an error for some LAPIC nothing is delivered and routing fails.
C13_Lowest ==
    [][/\ (last'.op = "v3_apic_send_ipi" /\ LogicalLowest(last'.arg))
             => LowestRouted(last'.arg)
       /\ \A c \in Apics :
             (/\ last'.op = "apic_write" /\ last'.apic = c
              /\ last'.arg = INT_CMD_LO_OFFSET
              /\ LogicalLowest(int_cmd[c])')
                => LowestRouted(int_cmd'[c])]_vars

\* C13 witness: every LAPIC matches MDA 0xFF and has task priority 0, and the
\* lowest-priority IPI went to LAPIC 0 alone
C13_Witness ==
    /\ last.op = "v3_apic_send_ipi"
    /\ LogicalLowest(last.arg) /\ icr_dst(last.arg) = 255
    /\ \A a \in Apics : task_prio[a] = W32(0) /\ dst_fmt_model(dst_fmt[a]) = 15
    /\ last.dests = <<0>>
    /\ irq_queue[0] = <<16>>
    /\ \A a \in Apics \ {0} : irq_queue[a] = << >>

\* the effect of a logical IPI that is not lowest-priority, with interrupt
\* command icr, when the loop over the LAPICs reaches a LAPIC whose
\* destination format is neither flat nor cluster
StoppedAtBadFormat(icr) ==
    LET mda == icr_dst(icr)
        k == CHOOSE b \in BadFormat(mda) : \A o \in BadFormat(mda) : b <= o
        before == {a \in Matchers(mda) : a < k}
        reaches == \/ before = {}
                   \/ icr_del_mode(icr) \in {APIC_FIXED_DELIVERY, APIC_INIT_DELIVERY,
                                             APIC_SIPI_DELIVERY, APIC_EXTINT_DELIVERY}
    IN  reaches
           => /\ last'.ret = -1
              /\ Range(last'.dests) = before
              /\ Len(last'.dests) = Cardinality(before)
              /\ icr_del_mode(icr) = APIC_FIXED_DELIVERY
                    => \A a \in before : irq_queue'[a] = Append(irq_queue[a], icr_vec(icr))
              /\ \A a \in Apics :
                    a >= k => /\ irq_queue'[a] = irq_queue[a]
                              /\ ipi_state'[a] = ipi_state[a]
                              /\ core'[a] = core[a]

\* the step is a logical IPI with no shorthand, not lowest-priority, with
\* interrupt command icr, and the match predicate reports an error for a LAPIC
LogicalToBadFormat(icr) ==
    /\ icr_dst_shorthand(icr) = APIC_SHORTHAND_NONE
    /\ icr_dst_mode(icr) = APIC_DEST_LOGICAL
    /\ icr_del_mode(icr) # APIC_LOWEST_DELIVERY
    /\ BadFormat(icr_dst(icr)) # {}

\* C37: when a logical IPI with no shorthand that is not lowest-priority
\* reaches a LAPIC at index k whose destination-format model is neither 0xF
\* nor 0x0, the routing stops with an error, deliver_ipi has been called on
\* every matching LAPIC of index below k, in order, and on no LAPIC of index k
\* or above.
C37_StopsAtBadFormat ==
    [][/\ (last'.op = "v3_apic_send_ipi" /\ LogicalToBadFormat(last'.arg))
             => StoppedAtBadFormat(last'.arg)
       /\ \A c \in Apics :
             (/\ last'.op = "apic_write" /\ last'.apic = c
              /\ last'.arg = INT_CMD_LO_OFFSET
              /\ LogicalToBadFormat(int_cmd[c])')
                => StoppedAtBadFormat(int_cmd'[c])]_vars

\* C37 witness: LAPIC 1 has destination-format model 0x5, the host sent
\* vector 16 to MDA 0xFF: LAPIC 0 has it queued, the routing failed
C37_Witness ==
    /\ last.op = "v3_apic_send_ipi" /\ last.ret = -1
    /\ icr_dst_mode(last.arg) = APIC_DEST_LOGICAL
    /\ icr_del_mode(last.arg) = APIC_FIXED_DELIVERY /\ icr_dst(last.arg) = 255
    /\ dst_fmt_model(dst_fmt[0]) = 15
    /\ dst_fmt_model(dst_fmt[1]) = 5
    /\ last.dests = <<0>>
    /\ irq_queue[0] = <<16>>
    /\ \A a \in Apics \ {0} : irq_queue[a] = << >>

\* the bits set in a byte
Bits8(x) == {k \in 0 .. 7 : (x \div Pow2(k)) % 2 = 1}

\* the match predicate as the claim states it, for a destination with
\* destination-format model `model` and logical id `id`: 1 match, 0 no match,
\* -1 error
MatchAsStated(model, id, mda) ==
    CASE model = 15 -> IF Bits8(id) \cap Bits8(mda) # {} THEN 1 ELSE 0
      [] model = 0 -> IF /\ id \div 16 = mda \div 16
                         /\ Bits8(id % 16) \cap Bits8(mda % 16) # {}
                      THEN 1 ELSE 0
      [] OTHER -> -1

\* message destination addresses other than 0xFF the predicate is probed with
MdaProbes == {0, 1, 2, 16, 17, 19, 34, 254}

\* the step is a logical IPI with no shorthand, interrupt command icr and an
\* MDA other than 0xFF
LogicalNotBroadcast(icr) ==
    /\ icr_dst_shorthand(icr) = APIC_SHORTHAND_NONE
    /\ icr_dst_mode(icr) = APIC_DEST_LOGICAL
    /\ icr_dst(icr) # 255

\* C14: for an MDA other than 0xFF the match predicate returns, in flat mode
\* (model 0xF), match iff (logical id AND MDA) # 0; in cluster mode (model 0x0),
\* match iff the top nibbles of logical id and MDA are equal and the AND of
\* their bottom nibbles is not zero; for any other model an error, and then the
\* routing of the IPI fails.  The predicate is compared with the statement
\* for every LAPIC at reset and for the writer after every write of a logical
\* destination or destination format register.
C14_MatchPredicate ==
    [][/\ (last.op = "apic_init")
             => \A a \in Apics, mda \in MdaProbes, n \in {State} :
                   should_deliver_ipi(n, a, mda)
                      = MatchAsStated(dst_fmt_model(n.dst_fmt[a]), dst_log_id(n.log_dst[a]), mda)
       /\ \A a \in Apics :
             (/\ last'.op = "apic_write" /\ last'.apic = a
              /\ last'.arg \in {LDR_OFFSET, DFR_OFFSET})
                => \A mda \in MdaProbes, n \in {State'} :
                      should_deliver_ipi(n, a, mda)
                         = MatchAsStated(dst_fmt_model(n.dst_fmt[a]), dst_log_id(n.log_dst[a]), mda)
       /\ (/\ last'.op = "v3_apic_send_ipi" /\ LogicalNotBroadcast(last'.arg)
           /\ \E a \in Apics : dst_fmt_model(dst_fmt[a]) \notin {0, 15})
             => last'.ret = -1
       /\ \A c \in Apics :
             (/\ last'.op = "apic_write" /\ last'.apic = c
              /\ last'.arg = INT_CMD_LO_OFFSET
              /\ LogicalNotBroadcast(int_cmd[c])'
              /\ \E a \in Apics : dst_fmt_model(dst_fmt[a]) \notin {0, 15})
                => last'.ret = -1]_vars

\* C14 witness: LAPIC 0 is in cluster mode with logical id 0x12; an IPI to MDA
\* 0x13 (same cluster, common member bit) was delivered to it
C14_Witness ==
    /\ last.op = "v3_apic_send_ipi"
    /\ LogicalNotBroadcast(last.arg) /\ icr_dst(last.arg) = 19
    /\ dst_fmt_model(dst_fmt[0]) = 0 /\ dst_log_id(log_dst[0]) = 18
    /\ last.dests = <<0>>

\* C15: a message destination address of 0xFF always matches: for every
\* destination LAPIC, whatever its logical destination and destination format
\* registers hold, the match predicate returns match for MDA 0xFF.
C15_BroadcastAlways ==
    \A a \in Apics : should_deliver_ipi(State, a, 255) = 1

(***************************************************************************)
(* The shorthand self and the unsupported delivery modes, checked under    *)
(* SpecShort.                                                              *)
(***************************************************************************)
\* C16: an IPI with shorthand self is delivered to the source LAPIC only; when
\* the source is null (v3_apic_send_ipi) the routing call returns an error and
\* delivers nothing.
C16_SelfShorthand ==
    [][/\ (/\ last'.op = "v3_apic_send_ipi"
           /\ icr_dst_shorthand(last'.arg) = APIC_SHORTHAND_SELF)
             => /\ last'.ret = -1
                /\ last'.dests = << >>
                /\ UNCHANGED <<irq_queue, int_req_reg, int_svc_reg, ipi_state, core>>
       /\ \A c \in Apics :
             (/\ last'.op = "apic_write" /\ last'.apic = c
              /\ last'.arg = INT_CMD_LO_OFFSET
              /\ icr_dst_shorthand(int_cmd[c])' = APIC_SHORTHAND_SELF)
                => /\ last'.dests = <<c>>
                   /\ (icr_del_mode(int_cmd[c])' = APIC_FIXED_DELIVERY)
                         => EnqueuedOn(icr_vec(int_cmd[c])', {c})
                   /\ \A a \in Apics \ {c} : irq_queue'[a] = irq_queue[a]
                   /\ UNCHANGED <<int_req_reg, int_svc_reg, ipi_state, core>>]_vars
\* the step is an IPI with interrupt command icr that route_ipi hands to
\* deliver_ipi, and it changes no LAPIC state and no queue; the return value is
\* an error for SMI, NMI and reserved and success for ExtInt
NothingDelivered(icr) ==
    (/\ icr_del_mode(icr) \in {APIC_SMI_DELIVERY, APIC_RES1_DELIVERY,
                               APIC_NMI_DELIVERY, APIC_EXTINT_DELIVERY}
     /\ last'.dests # << >>)
       => /\ UNCHANGED <<irq_queue, int_req_reg, int_svc_reg, int_en_reg, ipi_state, core,
                         regs, lapic_id, task_prio, log_dst, dst_fmt, base_addr_msr>>
          /\ (last'.ret = -1) <=> (icr_del_mode(icr) # APIC_EXTINT_DELIVERY)

\* C17: delivering an IPI with delivery mode SMI, NMI or reserved to any
\* destination returns an error and changes no LAPIC state and no queue;
\* delivery mode ExtInt returns success and likewise changes nothing.
C17_UnsupportedModes ==
    [][/\ \A dst \in Apics, src \in Apics \cup {NULL}, n \in {State'} :
             /\ \A mode \in {APIC_SMI_DELIVERY, APIC_RES1_DELIVERY, APIC_NMI_DELIVERY} :
                   deliver_ipi(n, src, dst, 16, mode) = [s |-> n, ret |-> -1]
             /\ deliver_ipi(n, src, dst, 16, APIC_EXTINT_DELIVERY) = [s |-> n, ret |-> 0]
       /\ (last'.op = "v3_apic_send_ipi") => (NothingDelivered(last'.arg) /\ int_cmd' = int_cmd)
       /\ \A c \in Apics :
             (last'.op = "apic_write" /\ last'.apic = c /\ last'.arg = INT_CMD_LO_OFFSET)
                => /\ NothingDelivered(int_cmd'[c])
                   /\ int_cmd'[c].hi = int_cmd[c].hi
                   /\ \A a \in Apics \ {c} : int_cmd'[a] = int_cmd[a]]_vars

\* C17 witness: LAPIC 0 wrote an NMI to all into its ICR; the write failed at
\* the first destination with every queue still empty
C17_Witness ==
    /\ last.op = "apic_write" /\ last.apic = 0 /\ last.arg = INT_CMD_LO_OFFSET
    /\ icr_del_mode(int_cmd[0]) = APIC_NMI_DELIVERY
    /\ last.ret = -1 /\ last.dests = <<0>>
    /\ \A a \in Apics : irq_queue[a] = << >>

(***************************************************************************)
(* The return value of an ICR low write whose routing fails, checked under *)
(* SpecLogical                                                             *)
(***************************************************************************)
\* the three ways routing an interrupt command without shorthand fails
NoSuchDestination(icr) ==
    /\ icr_dst_mode(icr) = APIC_DEST_PHYSICAL
    /\ \A a \in Apics : lapic_id[a] # W32(icr_dst(icr))
BadDestinationFormat(icr) ==
    /\ icr_dst_mode(icr) = APIC_DEST_LOGICAL
    /\ \E a \in Apics : dst_fmt_model(dst_fmt[a]) \notin {0, 15}
UnsupportedDeliveryMode(icr) ==
    /\ icr_del_mode(icr) \in {APIC_SMI_DELIVERY, APIC_RES1_DELIVERY, APIC_NMI_DELIVERY}
    /\ \/ icr_dst_mode(icr) = APIC_DEST_PHYSICAL
          /\ \E a \in Apics : lapic_id[a] = W32(icr_dst(icr))
       \/ icr_dst_mode(icr) = APIC_DEST_LOGICAL
          /\ Matchers(icr_dst(icr)) # {}
RoutingFails(icr) ==
    /\ icr_dst_shorthand(icr) = APIC_SHORTHAND_NONE
    /\ \/ NoSuchDestination(icr)
       \/ BadDestinationFormat(icr)
       \/ UnsupportedDeliveryMode(icr)

\* the step is a 4-byte write by an enabled LAPIC c to ICR low
IcrLowWrite(c) ==
    /\ last'.op = "apic_write" /\ last'.apic = c /\ last'.arg = INT_CMD_LO_OFFSET
    /\ msr_apic_enable(base_addr_msr[c]) # 0

\* C18 as stated: when IPI routing triggered by a guest write to ICR low fails
\* (no such destination, bad destination format, unsupported delivery mode),
\* the MMIO store itself still returns success (the length written).
C18_StoreSucceeds ==
    [][\A c \in Apics :
          (IcrLowWrite(c) /\ RoutingFails(int_cmd'[c])) => last'.ret = 4]_vars

\* C18 amended: when IPI routing triggered by a guest write to ICR low fails
\* (no such destination, bad destination format, unsupported delivery mode),
\* the MMIO store returns the error -1, the written word staying in ICR low;
\* the store returns its length when routing does not fail.
C18_StoreFails ==
    [][\A c \in Apics :
          IcrLowWrite(c)
             => /\ int_cmd'[c].lo \in LogicalLoVals
                /\ int_cmd'[c].hi = int_cmd[c].hi
                /\ IF RoutingFails(int_cmd'[c]) THEN last'.ret = -1 ELSE last'.ret = 4]_vars

\* C18 witness: LAPIC 0 wrote a fixed logical IPI into its ICR while LAPIC 1
\* had an invalid destination format; the write returned -1 and the word is
\* in ICR low
C18_Witness ==
    /\ last.op = "apic_write" /\ last.apic = 0 /\ last.arg = INT_CMD_LO_OFFSET
    /\ dst_fmt_model(dst_fmt[1]) \notin {0, 15}
    /\ int_cmd[0].lo = MkIcrLo(16, APIC_FIXED_DELIVERY, APIC_DEST_LOGICAL, 0, APIC_SHORTHAND_NONE)
    /\ last.ret = -1

(***************************************************************************)
(* The drain of the IRQ queue, checked under Spec                          *)
(***************************************************************************)
\* C19: every vector enqueued on a LAPIC's IRQ queue before the owner's next
\* apic_intr_pending call is consumed by that call: when the call returns the
\* queue is empty and every such vector whose IER bit is set has its IRR bit
\* set.
C19_DrainConsumesAll ==
    [][\A c \in Apics :
          (last'.op = "apic_intr_pending" /\ last'.apic = c)
             => /\ irq_queue'[c] = << >>
                /\ \A i \in 1 .. Len(irq_queue[c]) :
                      Bit(int_en_reg[c], irq_queue[c][i]) => Bit(int_req_reg'[c], irq_queue[c][i])
                /\ \A a \in Apics \ {c} : irq_queue'[a] = irq_queue[a]]_vars

\* C19 witness: apic_intr_pending returned for LAPIC 0 with the queue empty,
\* vector 16 requested and the disabled vector 255 not requested
C19_Witness ==
    /\ last.op = "apic_intr_pending" /\ last.apic = 0
    /\ irq_queue[0] = << >>
    /\ Bit(int_req_reg[0], 16)
    /\ ~Bit(int_en_reg[0], 255) /\ ~Bit(int_req_reg[0], 255)

\* the entries of a queue in the order the loop of drain_irq_entries hands
\* them to activate_apic_irq
RECURSIVE DrainOrder(_)
DrainOrder(queue) ==
    LET d == v3_dequeue(queue)
    IN  IF d.entry = 0 THEN << >> ELSE <<d.entry>> \o DrainOrder(d.queue)

MayEnqueue(th) ==
    CASE th.call \in {"physical", "lowest", "raise"} -> 1
      [] th.call = "fixed" -> NumApics - th.i
      [] OTHER -> 0

RECURSIVE InFlight(_)
InFlight(t) == IF t >= NumApics THEN 0 ELSE MayEnqueue(thread[t]) + InFlight(t + 1)

\* thread t may enter a call that performs up to n enqueues
MayStart(t, n) ==
    /\ thread[t].pc = "idle"
    /\ \E u \in Apics : (t = 0 \/ u = 0) /\ \A w \in Apics \ {t, u} : thread[w].pc = "idle"
    /\ Queued(State, 0) + InFlight(0) + n <= MaxQueue

\* what the lock steps never touch
Untouched == <<base_addr_msr, lapic_id, task_prio, int_cmd, ipi_state, int_svc_reg,
               int_en_reg, regs, core, last, missed_ints, base_addr, mem_regions, begun,
               devices, dev_map, addr_reg, dev_io_base>>

\* values written to DFR (model 0x5, flat) and LDR (the reset value)
LockWrites == {<<DFR_OFFSET, <<255, 255, 255, 95>> >>, <<DFR_OFFSET, <<255, 255, 255, 255>> >>,
               <<LDR_OFFSET, <<0, 0, 0, 0>> >>}
\* interrupt commands routed: <<delivery mode, destination mode, destination>>
LockIpis == {<<APIC_FIXED_DELIVERY, APIC_DEST_PHYSICAL, 1>>,
             <<APIC_FIXED_DELIVERY, APIC_DEST_PHYSICAL, 255>>,
             <<APIC_FIXED_DELIVERY, APIC_DEST_LOGICAL, 255>>,
             <<APIC_LOWEST_DELIVERY, APIC_DEST_LOGICAL, 255>>,
             <<APIC_LOWEST_DELIVERY, APIC_DEST_LOGICAL, 0>>}

\* apic_write entered for LDR or DFR: next is v3_lock_irqsave
StartWrite(t) ==
    \E w \in LockWrites :
        /\ MayStart(t, 0)
        /\ \A a \in Apics \ {t} : dst_fmt[a] = init_apic_state(a).dst_fmt
        /\ thread' = [thread EXCEPT ![t] = [Idle EXCEPT !.pc = "reg_lock", !.call = "write",
                                                         !.arg = w]]
        /\ UNCHANGED <<Untouched, log_dst, dst_fmt, irq_queue, int_req_reg, state_lock, queue_lock>>

\* route_ipi entered without shorthand: find_physical_apic for a physical
\* destination, the loop over the LAPICs for a logical one
StartRoute(t) ==
    \E m \in LockIpis :
        /\ MayStart(t, IF m[2] = APIC_DEST_LOGICAL /\ m[1] # APIC_LOWEST_DELIVERY
                       THEN NumApics ELSE 1)
        /\ thread' = [thread EXCEPT ![t] =
                         [Idle EXCEPT !.arg = m[3],
                                      !.call = IF m[2] = APIC_DEST_PHYSICAL THEN "physical"
                                               ELSE IF m[1] # APIC_LOWEST_DELIVERY THEN "fixed"
                                               ELSE "lowest",
                                      !.pc = IF m[2] = APIC_DEST_PHYSICAL THEN "find_lock"
                                             ELSE "match_lock"]]
        /\ UNCHANGED <<Untouched, log_dst, dst_fmt, irq_queue, int_req_reg, state_lock, queue_lock>>

\* v3_apic_raise_intr for destination d: add_apic_irq_entry calls v3_enqueue
StartRaise(t) ==
    \E d \in Apics :
        /\ MayStart(t, 1)
        /\ thread' = [thread EXCEPT ![t] = [Idle EXCEPT !.pc = "enq_lock", !.call = "raise",
                                                         !.dst = d]]
        /\ UNCHANGED <<Untouched, log_dst, dst_fmt, irq_queue, int_req_reg, state_lock, queue_lock>>

\* apic_intr_pending entered by the owner: drain_irq_entries calls v3_dequeue
StartDrain(t) ==
    /\ MayStart(t, 0)
    /\ irq_queue[t] = << >> \/ \A a \in Apics \ {t} : int_req_reg[a] = ZeroReg
    /\ thread' = [thread EXCEPT ![t] = [Idle EXCEPT !.pc = "deq_lock", !.call = "drain"]]
    /\ UNCHANGED <<Untouched, log_dst, dst_fmt, irq_queue, int_req_reg, state_lock, queue_lock>>

\* v3_lock_irqsave(apic_dev->state_lock)
LockState(t) ==
    /\ thread[t].pc \in {"reg_lock", "find_lock", "match_lock", "prio_lock"}
    /\ state_lock = NULL
    /\ state_lock' = t
    /\ thread' = [thread EXCEPT ![t].pc = CASE @ = "reg_lock" -> "reg_write"
                                            [] @ = "find_lock" -> "find_scan"
                                            [] @ = "match_lock" -> "match_eval"
                                            [] @ = "prio_lock" -> "prio_cmp"]
    /\ UNCHANGED <<Untouched, log_dst, dst_fmt, irq_queue, int_req_reg, queue_lock>>

\* apic_write, LDR and DFR: the store and v3_unlock_irqrestore
RegWrite(t) ==
    /\ thread[t].pc = "reg_write"
    /\ IF thread[t].arg[1] = DFR_OFFSET
       THEN dst_fmt' = [dst_fmt EXCEPT ![t] = thread[t].arg[2]] /\ UNCHANGED log_dst
       ELSE log_dst' = [log_dst EXCEPT ![t] = thread[t].arg[2]] /\ UNCHANGED dst_fmt
    /\ state_lock' = NULL
    /\ thread' = [thread EXCEPT ![t] = Idle]
    /\ UNCHANGED <<Untouched, irq_queue, int_req_reg, queue_lock>>

\* find_physical_apic after the lock: the search and v3_unlock_irqrestore;
\* route_ipi then returns -1 or calls deliver_ipi
FindScan(t) ==
    /\ thread[t].pc = "find_scan"
    /\ state_lock' = NULL
    /\ \E dest_apic \in {find_physical_apic(State, thread[t].arg)} :
          thread' = [thread EXCEPT ![t] = IF dest_apic = NULL THEN Idle
                                          ELSE [@ EXCEPT !.pc = "enq_lock", !.dst = dest_apic]]
    /\ UNCHANGED <<Untouched, log_dst, dst_fmt, irq_queue, int_req_reg, queue_lock>>

\* route_ipi, logical destination: the thread after LAPIC th.i is done with
Advance(th) ==
    IF th.i + 1 < NumApics THEN [th EXCEPT !.i = @ + 1, !.pc = "match_lock"]
    ELSE IF th.call = "lowest" /\ th.cur_best_apic # NULL
    THEN [th EXCEPT !.call = "physical", !.pc = "enq_lock", !.dst = th.cur_best_apic]
    ELSE Idle

\* should_deliver_ipi after the lock: the test and v3_unlock_irqrestore
MatchEval(t) ==
    /\ thread[t].pc = "match_eval"
    /\ state_lock' = NULL
    /\ \E del_flag \in {should_deliver_ipi(State, thread[t].i, thread[t].arg)} :
          thread' = [thread EXCEPT ![t] =
                        IF del_flag = -1 THEN Idle
                        ELSE IF del_flag = 0 THEN Advance(@)
                        ELSE IF @.call = "lowest" THEN [@ EXCEPT !.pc = "prio_lock"]
                        ELSE [@ EXCEPT !.pc = "enq_lock", !.dst = thread[t].i]]
    /\ UNCHANGED <<Untouched, log_dst, dst_fmt, irq_queue, int_req_reg, queue_lock>>

\* PrioCmp that goes on with the state lock held
PrioCmp_keeps_lock(t) ==
    /\ thread[t].pc = "prio_cmp"
    /\ thread' = [thread EXCEPT ![t] =
                     Advance([@ EXCEPT !.cur_best_apic =
                                 IF @ = NULL THEN thread[t].i
                                 ELSE IF WordLess(task_prio[thread[t].i], task_prio[@])
                                 THEN thread[t].i
                                 ELSE @])]
    /\ UNCHANGED <<Untouched, log_dst, dst_fmt, irq_queue, int_req_reg, queue_lock, state_lock>>

\* route_ipi, lowest priority: the comparison of task_prio under the state
\* lock and v3_unlock_irqrestore
PrioCmp(t) ==
    /\ thread[t].pc = "prio_cmp"
    /\ state_lock' = NULL
    /\ thread' = [thread EXCEPT ![t] =
                     Advance([@ EXCEPT !.cur_best_apic =
                                 IF @ = NULL THEN thread[t].i
                                 ELSE IF WordLess(task_prio[thread[t].i], task_prio[@])
                                 THEN thread[t].i
                                 ELSE @])]
    /\ UNCHANGED <<Untouched, log_dst, dst_fmt, irq_queue, int_req_reg, queue_lock>>

\* the queue a thread about to enqueue or dequeue works on
QueueOf(t) == IF thread[t].pc \in {"enq_lock", "enq"} THEN thread[t].dst ELSE t

\* v3_enqueue / v3_dequeue: the queue takes its lock
LockQueue(t) ==
    /\ thread[t].pc \in {"enq_lock", "deq_lock"}
    /\ queue_lock[QueueOf(t)] = NULL
    /\ queue_lock' = [queue_lock EXCEPT ![QueueOf(t)] = t]
    /\ thread' = [thread EXCEPT ![t].pc = IF @ = "enq_lock" THEN "enq" ELSE "deq"]
    /\ UNCHANGED <<Untouched, log_dst, dst_fmt, irq_queue, int_req_reg, state_lock>>

\* v3_enqueue of vector 16 under the queue lock, and its release; the logical
\* loop of route_ipi then goes on, every other call returns
Enq(t) ==
    /\ thread[t].pc = "enq"
    /\ irq_queue' = [irq_queue EXCEPT ![thread[t].dst] = add_apic_irq_entry(@, 16).queue]
    /\ queue_lock' = [queue_lock EXCEPT ![thread[t].dst] = NULL]
    /\ thread' = [thread EXCEPT ![t] = IF @.call = "fixed" THEN Advance(@) ELSE Idle]
    /\ UNCHANGED <<Untouched, log_dst, dst_fmt, int_req_reg, state_lock>>

\* drain_irq_entries: v3_dequeue under the queue lock and its release, then
\* activate_apic_irq of the entry, or the end of the loop on 0
Deq(t) ==
    /\ thread[t].pc = "deq"
    /\ queue_lock' = [queue_lock EXCEPT ![t] = NULL]
    /\ \E d \in {v3_dequeue(irq_queue[t])} :
          /\ irq_queue' = [irq_queue EXCEPT ![t] = d.queue]
          /\ IF d.entry = 0
             THEN thread' = [thread EXCEPT ![t] = Idle] /\ UNCHANGED int_req_reg
             ELSE /\ thread' = [thread EXCEPT ![t].pc = "deq_lock"]
                  /\ int_req_reg' = [int_req_reg EXCEPT ![t] =
                                        activate_apic_irq(@, int_en_reg[t], d.entry).req]
    /\ UNCHANGED <<Untouched, log_dst, dst_fmt, state_lock>>

\* the steps of thread t inside a call
Step(t) ==
    \/ LockState(t)
    \/ RegWrite(t)
    \/ FindScan(t)
    \/ MatchEval(t)
    \/ PrioCmp(t)
    \/ LockQueue(t)
    \/ Enq(t)
    \/ Deq(t)

NextLock ==
    \E t \in Apics :
        \/ StartWrite(t)
        \/ StartRoute(t)
        \/ StartRaise(t)
        \/ StartDrain(t)
        \/ Step(t)

SpecLock == Init /\ [][NextLock]_vars

\* C21: across all interleavings of vCPU threads doing MMIO writes, IPI
\* routing, raises and drains, no thread ever holds the device state-lock
\* while it acquires or holds a per-LAPIC queue lock, and every state-lock
\* acquisition is released before delivery starts or the function returns, so
\* no thread blocks forever on a lock: whoever holds a lock can take its next
\* step, and a thread inside a call that cannot step waits for a lock.
C21_LockOrder ==
    \A t \in Apics :
        /\ state_lock = t
              => /\ thread[t].pc \notin {"enq_lock", "enq", "deq_lock", "deq", "idle"}
                 /\ \A a \in Apics : queue_lock[a] # t
        /\ thread[t].pc = "idle" => \A a \in Apics : queue_lock[a] # t
        /\ (state_lock = t \/ \E a \in Apics : queue_lock[a] = t) => ENABLED Step(t)
        /\ (thread[t].pc # "idle" /\ ~ENABLED Step(t))
              => \/ thread[t].pc \in {"reg_lock", "find_lock", "match_lock", "prio_lock"}
                    /\ state_lock \in Apics \ {t}
                 \/ thread[t].pc \in {"enq_lock", "deq_lock"}
                    /\ queue_lock[QueueOf(t)] \in Apics \ {t}

\* C21 witness: thread 0 holds the state lock to compare priorities while
\* thread 1 holds the lock of queue 0 to enqueue
C21_Witness ==
    /\ state_lock = 0 /\ thread[0].pc = "prio_cmp"
    /\ queue_lock[0] = 1 /\ thread[1].pc = "enq"

(***************************************************************************)
(* SpecTimer: the timer of a LAPIC.  The guest writes the initial count,   *)
(* the timer entry of the local vector table and the divide configuration, *)
(* the VMM reports elapsed cycles.  As in Spec, one LAPIC at a time is     *)
(* away from its reset state.  Elapsed cycles are reported to a LAPIC that *)
(* has missed at most MaxMissed interrupts so far.  The entries of LINT0   *)
(* and of the error source are written while the timer registers are as    *)
(* reset, one at a time.                                                   *)
(***************************************************************************)
MaxMissed == 2

FocusedTimer(c, t) ==
    \E n \in {t} :
        /\ \/ \A off \in {848, 880} : n.regs[c][off] = ResetRegs[off]
           \/ /\ \A off \in {800, TMR_INIT_CNT_OFFSET, TMR_CUR_CNT_OFFSET, 992} :
                    n.regs[c][off] = ResetRegs[off]
              /\ \E off \in {848, 880} : n.regs[c][off] = ResetRegs[off]
        /\ Focused(c, n)

\* initial counts written by the guest
TmrInitVals == {W32(0), W32(500), W32(1000)}
\* timer entries written by the guest: vector 32 one-shot, periodic and masked
\* periodic, the reserved vector 15 periodic
TimerLvts == {<<32, 0, 0, 0>>, <<32, 0, 2, 0>>, <<32, 0, 3, 0>>, <<15, 0, 2, 0>>}
\* entries written for LINT0 (0x350) and the error source (0x370): fixed,
\* NMI and masked for LINT0, message type bits set for the error source
LocalLvts == {<<848, <<33, 0, 0, 0>> >>, <<848, <<33, 4, 0, 0>> >>, <<848, <<33, 0, 1, 0>> >>,
              <<880, <<34, 4, 0, 0>> >>}

WriteTmrInit ==
    \E c \in Apics, v \in TmrInitVals, s \in {State} :
        FocusedTimer(c, apic_write(s, c, TMR_INIT_CNT_OFFSET, v, 4))
WriteTimerLvt ==
    \E c \in Apics, v \in TimerLvts, s \in {State} : FocusedTimer(c, apic_write(s, c, 800, v, 4))
\* divide configurations written by the guest: divide by 1, invalid (reset: by 2)
WriteDivCfg ==
    \E c \in Apics, v \in {W32(11), W32(4)}, s \in {State} :
        FocusedTimer(c, apic_write(s, c, 992, v, 4))
WriteLocalLvt ==
    \E c \in Apics, w \in LocalLvts, s \in {State} :
        FocusedTimer(c, apic_write(s, c, w[1], w[2], 4))
\* elapsed cycles reported by the VMM: 100 and 3500
UpdateTime ==
    \E c \in Apics, cpu_cycles \in {100, 3500}, enqueue_missed \in BOOLEAN, s \in {State} :
        /\ missed_ints[c] <= MaxMissed
        /\ FocusedTimer(c, apic_update_time(s, c, cpu_cycles, enqueue_missed))

NextTimer ==
    \/ WriteTmrInit
    \/ WriteTimerLvt
    \/ WriteDivCfg
    \/ WriteLocalLvt
    \/ UpdateTime

SpecTimer == Init /\ [][NextTimer]_vars

PeriodicUpdate(c) ==
    /\ last'.op = "apic_update_time" /\ last'.apic = c
    /\ ShiftNum(regs[c][992][1]) \in 0 .. 7
    /\ tmr_mode(regs[c][800]) = APIC_TMR_PERIODIC

\* C23: in periodic mode with initial count I > 0 and current count C, a timer
\* update with T = cycles >> shift and T >= C injects the timer vector exactly
\* once (when the timer LVT is unmasked; the vectors 0 .. 15 are refused as
\* everywhere), sets current count to I - ((T - C) mod I) and adds
\* (T - C) div I to missed_ints; with divide-by-1, I = C = 1000 and 3500
\* elapsed cycles the result is current count 500, one injected interrupt and
\* missed_ints = 2.
C23_PeriodicExpiry ==
    [][\A c \in Apics :
          PeriodicUpdate(c)
             => \E I \in {ValOf(regs[c][TMR_INIT_CNT_OFFSET])},
                   C \in {ValOf(regs[c][TMR_CUR_CNT_OFFSET])},
                   T \in {last'.arg \div (2 ^ ShiftNum(regs[c][992][1]))} :
                   (I > 0 /\ T >= C)
                      => /\ ValOf(regs'[c][TMR_CUR_CNT_OFFSET]) = I - ((T - C) % I)
                         /\ missed_ints'[c] = missed_ints[c] + ((T - C) \div I)
                         /\ irq_queue'[c] =
                               IF lvt_mask(regs[c][800]) = 0 /\ lvt_vec(regs[c][800]) > 15
                               THEN <<lvt_vec(regs[c][800])>>
                               ELSE << >>
                         /\ \A v \in Range(irq_queue[c]) : Bit(int_req_reg'[c], v)
                         /\ (I = 1000 /\ C = 1000 /\ T = 3500)
                               => /\ regs'[c][TMR_CUR_CNT_OFFSET] = W32(500)
                                  /\ missed_ints'[c] = missed_ints[c] + 2]_vars

\* C23 witness: divide by 1, initial count 1000, 3500 cycles reported: current
\* count 500, vector 32 waiting once, two interrupts missed
C23_Witness ==
    /\ last.op = "apic_update_time" /\ last.apic = 0 /\ last.arg = 3500
    /\ regs[0][992] = W32(11) /\ regs[0][800] = <<32, 0, 2, 0>>
    /\ regs[0][TMR_INIT_CNT_OFFSET] = W32(1000) /\ regs[0][TMR_CUR_CNT_OFFSET] = W32(500)
    /\ irq_queue[0] = <<32>> /\ missed_ints[0] = 2

\* C34: in one-shot mode, after the initial count was written with N > 0 and
\* with no further write to the count registers, the timer vector is injected
\* at most once over any sequence of timer updates: an update injects only
\* when it takes the current count from above 0 to 0, and once the current
\* count is 0 every further update changes nothing; with initial count 0
\* every update changes nothing in either mode.
C34_OneShotOnce ==
    [][\A c \in Apics :
          (last'.op = "apic_update_time" /\ last'.apic = c)
             => \E I \in {ValOf(regs[c][TMR_INIT_CNT_OFFSET])},
                   C \in {ValOf(regs[c][TMR_CUR_CNT_OFFSET])},
                   oneshot \in {tmr_mode(regs[c][800]) = APIC_TMR_ONESHOT} :
                   /\ (I = 0 \/ (oneshot /\ C = 0))
                         => UNCHANGED <<regs, irq_queue, int_req_reg, missed_ints>>
                   /\ (oneshot /\ I > 0 /\ irq_queue'[c] # irq_queue[c] /\ irq_queue'[c] # << >>)
                         => /\ C > 0
                            /\ regs'[c][TMR_CUR_CNT_OFFSET] = W32(0)]_vars

\* the outcome of activating a local source as the claim states it: vec, fixed
\* and masked are the vector, whether the delivery mode is fixed, and the
\* mask bit of its entry
ActivatedAsStated(queue, vec, fixed, masked) ==
    IF masked = 1 THEN [queue |-> queue, ret |-> 0]
    ELSE IF fixed /\ vec > 15 THEN [queue |-> Append(queue, vec), ret |-> 0]
    ELSE [queue |-> queue, ret |-> -1]

\* C27: activating a local source (timer, thermal, performance, LINT0, LINT1,
\* error): if its LVT mask bit is set, returns success and enqueues nothing;
\* else if its delivery mode is fixed, enqueues its LVT vector on the owning
\* LAPIC's queue (the vectors 0 .. 15 are refused as everywhere); else fails
\* with no enqueue.  The timer and the error source are always fixed.  With
\* the timer LVT masked, a timer expiry injects no interrupt while the
\* current count is still updated as when unmasked.
C27_LocalSources ==
    [][\A c \in Apics :
          /\ \A n \in {State'} :
                /\ \A w \in {<<"APIC_TMR_INT", 800>>, <<"APIC_ERR_INT", 880>>} :
                      activate_internal_irq(n.irq_queue[c], n.regs[c], w[1])
                         = ActivatedAsStated(n.irq_queue[c], n.regs[c][w[2]][1], TRUE,
                                             n.regs[c][w[2]][3] % 2)
                /\ \A w \in {<<"APIC_THERM_INT", 816>>, <<"APIC_PERF_INT", 832>>,
                             <<"APIC_LINT0_INT", 848>>, <<"APIC_LINT1_INT", 864>>} :
                      activate_internal_irq(n.irq_queue[c], n.regs[c], w[1])
                         = ActivatedAsStated(n.irq_queue[c], n.regs[c][w[2]][1],
                                             n.regs[c][w[2]][2] % 8 = APIC_FIXED_DELIVERY,
                                             n.regs[c][w[2]][3] % 2)
          /\ (/\ last'.op = "apic_update_time" /\ last'.apic = c
              /\ regs[c][800][3] % 2 = 1)
                => /\ irq_queue'[c] \in {irq_queue[c], << >>}
                   /\ \E unmasked \in {apic_update_time(
                                          [State EXCEPT !.regs[c][800][3] = @ - 1], c,
                                          last'.arg, FALSE)} :
                         regs'[c][TMR_CUR_CNT_OFFSET] = unmasked.regs[c][TMR_CUR_CNT_OFFSET]]_vars

\* C27 witness: the timer of LAPIC 0 is masked and periodic with initial count
\* 1000; 3500 cycles at divide by 1 left current count 500, two missed
\* interrupts and an empty queue
C27_Witness ==
    /\ last.op = "apic_update_time" /\ last.apic = 0 /\ last.arg = 3500
    /\ regs[0][992] = W32(11) /\ regs[0][800] = <<32, 0, 3, 0>>
    /\ regs[0][TMR_INIT_CNT_OFFSET] = W32(1000) /\ regs[0][TMR_CUR_CNT_OFFSET] = W32(500)
    /\ irq_queue[0] = << >> /\ missed_ints[0] = 2

(***************************************************************************)
(* The life cycle INIT_ST, SIPI, STARTED step by step, under SpecIpi.      *)
(***************************************************************************)
\* the interrupt command the step routed, as a set: the argument of
\* v3_apic_send_ipi, the ICR after a guest write of ICR low, none otherwise
RoutedCmd ==
    IF last'.op = "v3_apic_send_ipi" THEN {last'.arg}
    ELSE IF last'.op = "apic_write"
         THEN IF last'.arg = INT_CMD_LO_OFFSET THEN {int_cmd'[last'.apic]} ELSE {}
         ELSE {}

\* the step delivered an IPI of delivery mode `mode` to LAPIC a
DeliveredMode(a, mode) ==
    /\ \E icr \in RoutedCmd : icr_del_mode(icr) = mode
    /\ a \in Range(last'.dests)

C29_InitAlwaysSipi ==
    [][\A a \in Apics :
          DeliveredMode(a, APIC_INIT_DELIVERY) => ipi_state'[a] = "SIPI"]_vars

\* C29: an INIT IPI delivered to a LAPIC in INIT_ST leaves it in SIPI; delivered
\* to a LAPIC in SIPI or STARTED it is ignored: the LAPIC stays in SIPI or in
\* STARTED.  The vCPU is not touched in any of the three cases.
C29_InitFromInitOnly ==
    [][\A a \in Apics :
          DeliveredMode(a, APIC_INIT_DELIVERY)
             => /\ ipi_state'[a] = IF ipi_state[a] = "INIT_ST" THEN "SIPI" ELSE ipi_state[a]
                /\ core'[a] = core[a]
                /\ last'.ret # -1]_vars

\* C29 witness: an INIT IPI was delivered to LAPIC 1, which is STARTED
C29_Witness ==
    /\ last.op = "v3_apic_send_ipi"
    /\ icr_del_mode(last.arg) = APIC_INIT_DELIVERY
    /\ last.dests = <<1>>
    /\ ipi_state[1] = "STARTED"

(***************************************************************************)
(* Guest writes to the read-only registers and writes of a wrong length,   *)
(* between interrupts raised, drained and begun.                           *)
(***************************************************************************)
\* 4-byte writes of 0xffffffff to every read-only register
WriteReadOnly ==
    \E c \in Apics, reg_addr \in ReadOnlyOffsets, v \in {<<255, 255, 255, 255>>},
       s \in {State} :
        Focused(c, apic_write(s, c, reg_addr, v, 4))

\* writes of 1, 2 and 8 bytes to EOI, ICR low, the timer initial count, the
\* APIC id and a read-only register
BadLengthOffsets == {EOI_OFFSET, INT_CMD_LO_OFFSET, TMR_INIT_CNT_OFFSET, APIC_ID_OFFSET, 48}
WriteBadLength ==
    \E c \in Apics, reg_addr \in BadLengthOffsets, length \in {1, 2, 8}, s \in {State} :
        Focused(c, apic_write(s, c, reg_addr,
                              MkIcrLo(16, APIC_FIXED_DELIVERY, APIC_DEST_PHYSICAL, 0,
                                      APIC_SHORTHAND_ALL), length))

NextReadOnly ==
    \/ Raise
    \/ Pending
    \/ Begin
    \/ WriteReadOnly
    \/ WriteBadLength

SpecReadOnly == Init /\ [][NextReadOnly]_vars

\* C30: a 4-byte guest write to a read-only register (version, APR, PPR,
\* remote read, any IRR/ISR/TMR subword) returns an error to the MMIO
\* framework and leaves the register bank, the bitmaps and all queues
\* unchanged.
C30_ReadOnlyError ==
    [][(last'.op = "apic_write")
          => (last'.arg \in ReadOnlyOffsets
                 => /\ last'.ret = -1
                    /\ UNCHANGED <<regs, int_req_reg, int_svc_reg, int_en_reg, irq_queue,
                                   lapic_id, task_prio, log_dst, dst_fmt, int_cmd>>)]_vars

\* C32: an MMIO write whose length is not 4 bytes is rejected with an error
\* and changes nothing, whatever the offset: no register, bitmap or queue is
\* modified, no EOI is performed and no IPI is routed.
C32_BadLengthRejected ==
    \A c \in Apics, reg_addr \in BadLengthOffsets \cup {TPR_OFFSET, DFR_OFFSET, 1040},
       length \in {0, 1, 2, 3, 8} :
        \E s \in {State} :
            apic_write(s, c, reg_addr, <<255, 255, 255, 255>>, length)
               = [s EXCEPT !.last = Call("apic_write", c, reg_addr, -1, << >>)]

\* C32 witness: a write of another length to the EOI register of LAPIC 0 was
\* rejected while vector 16 was in service and is still in service
C32_Witness ==
    /\ last.op = "apic_write" /\ last.apic = 0 /\ last.arg = EOI_OFFSET /\ last.ret = -1
    /\ Bit(int_svc_reg[0], 16)

(***************************************************************************)
(* MMIO reads and writes of the timer counts.                              *)
(***************************************************************************)
\* apic_read: reg_addr is guest_addr - apic->base_addr.  The bytes stored
\* through dst are kept in the `dests` field of the call.  A 2-byte read takes
\* the uint16_t at index byte_addr of val: index 1 is bytes 2 and 3, index 2
\* lies beyond val, and `beyond` is what the memory after val holds.
apic_read(s, c, reg_addr, length, beyond) ==
    LET byte_addr == reg_addr % 4
        base == reg_addr - byte_addr
        Word(reg, off0) == [i \in 1 .. 4 |-> reg[(((base - off0) \div 16) * 4) + (i - 1)]]
        val == CASE base = EOI_OFFSET -> W32(0)
                 [] base = APIC_ID_OFFSET -> s.lapic_id[c]
                 [] base = 48 -> <<16, 0, 5, 128>>
                 [] base = TPR_OFFSET -> s.task_prio[c]
                 [] base \in {144, 160, 192} -> W32(0)
                 [] base = LDR_OFFSET -> s.log_dst[c]
                 [] base = DFR_OFFSET -> s.dst_fmt[c]
                 [] base \in DOMAIN s.regs[c] -> s.regs[c][base]
                 [] base \in IER_OFFSETS -> Word(s.int_en_reg[c], IER_OFFSET0)
                 [] base \in Subwords(256) -> Word(s.int_svc_reg[c], 256)
                 [] base \in Subwords(384) -> W32(0)
                 [] base \in Subwords(512) -> Word(s.int_req_reg[c], 512)
                 [] base = INT_CMD_LO_OFFSET -> s.int_cmd[c].lo
                 [] base = INT_CMD_HI_OFFSET -> s.int_cmd[c].hi
                 [] OTHER -> << >>
        Ret(ret, bytes) ==
            [s EXCEPT !.last = Call("apic_read", c, <<reg_addr, length>>, ret, bytes)]
    IN  IF msr_apic_enable(s.base_addr_msr[c]) = 0 THEN Ret(-1, << >>)
        ELSE IF val = << >> THEN Ret(-1, << >>)
        ELSE IF length = 1 THEN Ret(length, <<val[byte_addr + 1]>>)
        ELSE IF length = 2 /\ byte_addr # 3
             THEN Ret(length, CASE byte_addr = 0 -> <<val[1], val[2]>>
                                [] byte_addr = 1 -> <<val[3], val[4]>>
                                [] OTHER -> beyond)
        ELSE IF length = 4 THEN Ret(length, <<val[1], val[2], val[3], val[4]>>)
        ELSE Ret(-1, << >>)

\* 4-byte writes to the timer current-count register (offset 0x390)
WriteTmrCur ==
    \E c \in Apics, v \in {W32(7), <<4, 3, 2, 1>>}, s \in {State} :
        Focused(c, apic_write(s, c, TMR_CUR_CNT_OFFSET, v, 4))

\* reads of 1, 2, 3 and 4 bytes at every byte of the APIC id, the two timer
\* counts and an unhandled register; the two bytes after val hold 0 or 0xabcd
ReadOffsets == {APIC_ID_OFFSET, TMR_INIT_CNT_OFFSET, TMR_CUR_CNT_OFFSET, 1040}
ReadReg ==
    \E c \in Apics, base \in ReadOffsets, k \in 0 .. 3, length \in 1 .. 4,
       beyond \in {<<0, 0>>, <<205, 171>>}, s \in {State} :
        Focused(c, apic_read(s, c, base + k, length, beyond))

NextMmio ==
    \/ WriteTmrInit
    \/ WriteTmrCur
    \/ ReadReg

SpecMmio == Init /\ [][NextMmio]_vars

\* C31: the timer current-count register (offset 0x390) is read-only for the
\* guest: no MMIO write to 0x390 changes the current count; the current count
\* changes only through a write to the initial-count register or through the
\* timer driver.
C31_CurCountReadOnly ==
    [][\A c \in Apics :
          regs'[c][TMR_CUR_CNT_OFFSET] # regs[c][TMR_CUR_CNT_OFFSET]
             => \/ last'.op = "apic_update_time"
                \/ last'.op = "apic_write" /\ last'.arg = TMR_INIT_CNT_OFFSET]_vars

\* C33: for every readable register with 32-bit value V: a 4-byte read
\* returns V, a 1-byte read at byte offset k in 0 .. 3 returns byte k of V, a
\* 2-byte read at byte offset k in {0, 1, 2} returns the bytes k and k + 1 of V,
\* and a 2-byte read at byte offset 3 is rejected.
C33_SubwordReads ==
    (last.op = "apic_read")
       => \E c \in {last.apic}, length \in {last.arg[2]}, k \in {last.arg[1] % 4} :
          \E base \in {last.arg[1] - k} :
             (base \in {APIC_ID_OFFSET, TMR_INIT_CNT_OFFSET, TMR_CUR_CNT_OFFSET})
                => \E V \in {IF base = APIC_ID_OFFSET THEN lapic_id[c] ELSE regs[c][base]} :
                      /\ length = 4 => last.ret = 4 /\ last.dests = <<V[1], V[2], V[3], V[4]>>
                      /\ length = 1 => last.ret = 1 /\ last.dests = <<V[k + 1]>>
                      /\ (length = 2 /\ k <= 2)
                            => last.ret = 2 /\ last.dests = <<V[k + 1], V[k + 2]>>
                      /\ (length = 2 /\ k = 3) => last.ret = -1

(***************************************************************************)
(* The base-address MSR (IA32_APIC_BASE, 0x1B) and the MMIO regions.       *)
(* The memory map of the VM belongs to the VMM (palacios/vmm_mem.h): a     *)
(* region is [core_id, guest_start] and covers 4 KiB from guest_start;     *)
(* v3_get_mem_region finds the region of a core that covers an address,    *)
(* v3_delete_mem_region removes it, v3_hook_full_mem adds one and can      *)
(* fail.  Addresses are 64-bit words held as [lo, hi].                     *)
(***************************************************************************)
\* guest_start <= guest_addr < guest_start + PAGE_SIZE_4KB, for a region of
\* core_id: compared by 4 KiB page number and offset inside the page
Covers(reg, core_id, guest_addr) ==
    LET PageOf(addr) == (addr.lo[2] \div 16) + (16 * addr.lo[3]) + (4096 * addr.lo[4])
        PageOffset(addr) == addr.lo[1] + (256 * (addr.lo[2] % 16))
    IN  /\ reg.core_id = core_id
        /\ reg.guest_start.hi = guest_addr.hi
        /\ \/ /\ PageOf(guest_addr) = PageOf(reg.guest_start)
              /\ PageOffset(guest_addr) >= PageOffset(reg.guest_start)
           \/ /\ PageOf(guest_addr) = PageOf(reg.guest_start) + 1
              /\ PageOffset(guest_addr) < PageOffset(reg.guest_start)

\* the region found, as a set: empty for NULL
v3_get_mem_region(regions, core_id, guest_addr) ==
    IF \E r \in regions : Covers(r, core_id, guest_addr)
    THEN {CHOOSE r \in regions : Covers(r, core_id, guest_addr)}
    ELSE {}

v3_delete_mem_region(regions, reg) == regions \ {reg}

\* the hook fails when the VMM cannot add the region (can_hook is its answer)
\* and when the new region would overlap one of the same core
v3_hook_full_mem(regions, core_id, guest_start, can_hook) ==
    LET new == [core_id |-> core_id, guest_start |-> guest_start]
    IN  IF /\ can_hook
           /\ \A r \in regions : /\ ~Covers(r, core_id, guest_start)
                                 /\ ~Covers(new, r.core_id, r.guest_start)
        THEN [regions |-> regions \cup {new}, ret |-> 0]
        ELSE [regions |-> regions, ret |-> -1]

\* read_apic_msr: dst->value = apic->base_addr; the value stored through dst
\* is kept as the argument of the call
read_apic_msr(s, c) ==
    [s EXCEPT !.last = Call("read_apic_msr", c, s.base_addr[c], 0, << >>)]

write_apic_msr(s, c, src, can_hook) ==
    LET old_reg == v3_get_mem_region(s.mem_regions, c, s.base_addr[c])
    IN  IF old_reg = {}
        THEN [s EXCEPT !.last = Call("write_apic_msr", c, src, -1, << >>)]
        ELSE LET hooked == v3_hook_full_mem(
                               v3_delete_mem_region(s.mem_regions, CHOOSE r \in old_reg : TRUE),
                               c, src, can_hook)
             IN  [s EXCEPT !.base_addr[c] = src,
                           !.mem_regions = hooked.regions,
                           !.last = Call("write_apic_msr", c, src, hooked.ret, << >>)]

\* values guests write to the MSR: the reset word of a boot processor
\* (0xfee00900), another base with the enable bit (0xfec00800), a base above
\* 4 GiB (0x1fee00800) and the bare default base (0xfee00000)
MsrVals == {[lo |-> <<0, 9, 224, 254>>, hi |-> W32(0)],
            [lo |-> <<0, 8, 192, 254>>, hi |-> W32(0)],
            [lo |-> <<0, 8, 224, 254>>, hi |-> W32(1)],
            [lo |-> DEFAULT_BASE_ADDR, hi |-> W32(0)]}

WriteMsr ==
    \E c \in Apics, src \in MsrVals, can_hook \in BOOLEAN, s \in {State} :
        Becomes(write_apic_msr(s, c, src, can_hook))
ReadMsr == \E c \in Apics, s \in {State} : Becomes(read_apic_msr(s, c))

NextMsr ==
    \/ WriteMsr
    \/ ReadMsr

SpecMsr == Init /\ [][NextMsr]_vars

\* the regions of LAPIC c in the memory map
RegionsOf(c) == {r \in mem_regions : r.core_id = c}

\* C24: writing the base-address MSR with any value X and then reading the MSR
\* on the same vCPU returns X.
C24_WriteThenRead ==
    [][\A c \in Apics :
          (last'.op = "write_apic_msr" /\ last'.apic = c)
             => \E n \in {State'} : read_apic_msr(n, c).last.arg = last'.arg]_vars

\* C25: in every reachable state each LAPIC has exactly one 4 KiB MMIO region
\* hooked, located at its current base address, also after a base-address
\* MSR write whose re-hook failed.
C25_OneRegion ==
    \A c \in Apics : RegionsOf(c) = {[core_id |-> c, guest_start |-> base_addr[c]]}

\* C26: reading MSR 0x1B returns the full 64-bit base-address MSR word held
\* for that LAPIC (enable bit set, bootstrap bit only on vCPU 0, the physical
\* base): the value read always equals base_addr_msr.
C26_ReadIsMsrWord ==
    (last.op = "read_apic_msr") => last.arg = base_addr_msr[last.apic]

(***************************************************************************)
(* SpecNest: nested interrupt service.  The core asks a LAPIC for the next *)
(* vector (apic_get_intr_number) and begins exactly the vector it was      *)
(* given; the guest ends services with EOI writes.  begun records, per     *)
(* LAPIC, the vectors whose service began and has not been ended by an     *)
(* EOI, oldest first.                                                      *)
(***************************************************************************)
Nested(c, t, stack) ==
    \E n \in {t} : /\ QueueBound(n)
                   /\ \A a \in Apics \ {c} : AtReset(n, a)
                   /\ Stores(n)
                   /\ begun' = [begun EXCEPT ![c] = stack]

\* interrupt numbers raised on a LAPIC while services nest
NestIrqs == {16, 32, 255}

NestRaise ==
    \E c \in Apics, irq \in NestIrqs, s \in {State} :
        Nested(c, v3_apic_raise_intr(s, irq, c), begun[c])
NestPending == \E c \in Apics, s \in {State} : Nested(c, apic_intr_pending(s, c), begun[c])
NestGetNumber == \E c \in Apics, s \in {State} : Nested(c, apic_get_intr_number(s, c), begun[c])
\* the core begins the vector apic_get_intr_number has just returned
NestBegin ==
    \E c \in Apics, s \in {State} :
        /\ last.op = "apic_get_intr_number" /\ last.apic = c /\ last.ret # -1
        /\ Nested(c, apic_begin_irq(s, c, last.ret), Append(begun[c], last.ret))
NestEoi ==
    \E c \in Apics, s \in {State} :
        Nested(c, apic_write(s, c, EOI_OFFSET, W32(0), 4),
               IF begun[c] = << >> THEN << >> ELSE SubSeq(begun[c], 1, Len(begun[c]) - 1))

NextNest ==
    \/ NestRaise
    \/ NestPending
    \/ NestGetNumber
    \/ NestBegin
    \/ NestEoi

SpecNest == Init /\ [][NextNest]_vars

\* C35: when apic_begin_irq is only called with the vector
\* apic_get_intr_number has just returned, every vector begun is above all
\* the vectors in service and is not itself in service, every EOI clears the
\* vector begun most recently and still in service, and the vectors in
\* service are exactly the ones begun and not yet ended.
C35_NestedService ==
    [][\A c \in Apics :
          /\ (last'.op = "apic_begin_irq" /\ last'.apic = c)
                => /\ \A w \in ISR(c) : w < last'.arg
                   /\ ISR(c)' = ISR(c) \cup {last'.arg}
          /\ (last'.op = "apic_write" /\ last'.apic = c /\ last'.arg = EOI_OFFSET
                 /\ begun[c] # << >>)
                => /\ begun[c][Len(begun[c])] \in ISR(c)
                   /\ ISR(c)' = ISR(c) \ {begun[c][Len(begun[c])]}
          /\ ISR(c)' = Range(begun'[c])
          /\ Len(begun'[c]) = Cardinality(Range(begun'[c]))]_vars

\* C35 witness: an EOI has ended the service of vector 255, begun while 32
\* was in service, itself begun while 16 was in service; 16 and 32 remain
C35_Witness ==
    \E a \in Apics : /\ last.op = "apic_write" /\ last.apic = a /\ last.arg = EOI_OFFSET
                     /\ begun[a] = <<16, 32>>
                     /\ ISR(a) = {16, 32}
                     /\ 255 \in IRR(a)

(***************************************************************************)
(* SpecStart: INIT and Startup IPIs delivered by several threads at once.  *)
(* deliver_ipi runs with no lock held: route_ipi has released the state    *)
(* lock inside find_physical_apic before it calls deliver_ipi.  A thread   *)
(* is interleaved with the others between its test of ipi_state, its call  *)
(* of v3_reset_vm_core and its stores to core_run_state and ipi_state.     *)
(***************************************************************************)
\* what the steps of deliver_ipi's INIT and Startup cases never touch
Undelivered == <<base_addr_msr, lapic_id, task_prio, log_dst, dst_fmt, int_cmd,
                 int_req_reg, int_svc_reg, int_en_reg, irq_queue, regs, last,
                 state_lock, queue_lock, missed_ints, base_addr, mem_regions, begun,
                 devices, dev_map, addr_reg, dev_io_base>>

\* the Startup vectors the threads send
StartVecs == {1, 2}

\* thread t enters deliver_ipi for destination d with an INIT or a Startup IPI
StartDeliver(t) ==
    \E d \in Apics, m \in {<<APIC_INIT_DELIVERY, 0>>} \cup {<<APIC_SIPI_DELIVERY, v>> : v \in StartVecs} :
        /\ thread[t].pc = "idle"
        /\ thread' = [thread EXCEPT ![t] =
                         [Idle EXCEPT !.call = "deliver", !.dst = d, !.arg = m[2],
                                      !.pc = IF m[1] = APIC_INIT_DELIVERY THEN "init_test"
                                             ELSE "sipi_test"]]
        /\ UNCHANGED <<Undelivered, ipi_state, core>>

\* if (dst_apic->ipi_state != INIT_ST) break;
InitTest(t) ==
    /\ thread[t].pc = "init_test"
    /\ thread' = [thread EXCEPT ![t] = IF ipi_state[thread[t].dst] # "INIT_ST" THEN Idle
                                       ELSE [@ EXCEPT !.pc = "init_set"]]
    /\ UNCHANGED <<Undelivered, ipi_state, core>>

\* dst_apic->ipi_state = SIPI;
InitSet(t) ==
    /\ thread[t].pc = "init_set"
    /\ ipi_state' = [ipi_state EXCEPT ![thread[t].dst] = "SIPI"]
    /\ thread' = [thread EXCEPT ![t] = Idle]
    /\ UNCHANGED <<Undelivered, core>>

\* if (dst_apic->ipi_state != SIPI) break;
SipiTest(t) ==
    /\ thread[t].pc = "sipi_test"
    /\ thread' = [thread EXCEPT ![t] = IF ipi_state[thread[t].dst] # "SIPI" THEN Idle
                                       ELSE [@ EXCEPT !.pc = "sipi_reset"]]
    /\ UNCHANGED <<Undelivered, ipi_state, core>>

\* v3_reset_vm_core(dst_core, vector);
SipiReset(t) ==
    /\ thread[t].pc = "sipi_reset"
    /\ core' = [core EXCEPT ![thread[t].dst] = v3_reset_vm_core(@, thread[t].arg)]
    /\ thread' = [thread EXCEPT ![t].pc = "sipi_started"]
    /\ UNCHANGED <<Undelivered, ipi_state>>

\* dst_core->core_run_state = CORE_RUNNING; dst_apic->ipi_state = STARTED;
SipiStarted(t) ==
    /\ thread[t].pc = "sipi_started"
    /\ core' = [core EXCEPT ![thread[t].dst].core_run_state = "CORE_RUNNING"]
    /\ ipi_state' = [ipi_state EXCEPT ![thread[t].dst] = "STARTED"]
    /\ thread' = [thread EXCEPT ![t] = Idle]
    /\ UNCHANGED Undelivered

NextStart ==
    \E t \in Apics :
        \/ StartDeliver(t)
        \/ InitTest(t)
        \/ InitSet(t)
        \/ SipiTest(t)
        \/ SipiReset(t)
        \/ SipiStarted(t)

SpecStart == Init /\ [][NextStart]_vars

\* C36: v3_reset_vm_core is performed at most once for each destination, also
\* when several threads deliver Startup IPIs to it at the same time: no
\* thread is between its test of ipi_state and its store of STARTED while
\* another one resets the same vCPU.
C36_ResetOnce ==
    /\ \A a \in Apics : core[a].num_resets <= 1
    /\ \A t, u \in Apics :
          (t # u /\ thread[t].pc \in {"sipi_reset", "sipi_started"}
                 /\ thread[u].pc \in {"sipi_reset", "sipi_started"})
             => thread[t].dst # thread[u].dst

(***************************************************************************)
(* pci.c: the PCI bus.  A pointer to a device is a set holding the device, *)
(* the empty set is NULL.  The device tree is keyed by devfn, the byte     *)
(* that holds fn_num in its low 3 bits and dev_num in its high 5 bits.     *)
(***************************************************************************)
Or8(x, y) == (x + y) - And8(x, y)
And32(a, b) == <<And8(a[1], b[1]), And8(a[2], b[2]), And8(a[3], b[3]), And8(a[4], b[4])>>
Not32(a) == <<255 - a[1], 255 - a[2], 255 - a[3], 255 - a[4]>>
OrLow(a, flags) == <<Or8(a[1], flags), a[2], a[3], a[4]>>

\* the PCI state as one value
Pci == [devices |-> devices, dev_map |-> dev_map, addr_reg |-> addr_reg,
        dev_io_base |-> dev_io_base, last |-> last]

\* the 32-bit word of configuration space at offset off
CfgWord(config_space, off) ==
    <<config_space[off], config_space[off + 1], config_space[off + 2], config_space[off + 3]>>
SetCfgWord(config_space, off, w) ==
    [k \in DOMAIN config_space |->
        IF k \in off .. (off + 3) THEN w[(k - off) + 1] ELSE config_space[k]]

\* get_free_dev_num: the first 0 bit of dev_map, or -1
get_free_dev_num(map) ==
    LET free == {n \in 0 .. (MAX_BUS_DEVICES - 1) : ~TestFlag(map[n \div 8], Pow2(n % 8))}
    IN  IF free = {} THEN -1 ELSE CHOOSE n \in free : \A o \in free : n <= o

\* allocate_dev_num
allocate_dev_num(map, dev_num) ==
    LET major == dev_num \div 8
        minor == dev_num % 8
    IN  [map EXCEPT ![major] = OrFlag(@, Pow2(minor))]

\* the devfn of a device: fn_num and dev_num are bit-fields of that byte
devfn(dev) == (dev.dev_num * 8) + dev.fn_num

\* add_device_to_bus: the device found at the same devfn, or NULL after linking
add_device_to_bus(p, dev) ==
    IF devfn(dev) \in DOMAIN p.devices THEN [p |-> p, ret |-> {p.devices[devfn(dev)]}]
    ELSE [p |-> [p EXCEPT !.devices = (devfn(dev) :> dev) @@ p.devices,
                          !.dev_map = allocate_dev_num(p.dev_map, dev.dev_num)],
          ret |-> {}]

\* get_device: its parameters are uint8_t
get_device(p, dev_num, fn_num) ==
    LET key == (((dev_num % 256) % 32) * 8) + ((fn_num % 256) % 8)
    IN  IF key \in DOMAIN p.devices THEN {p.devices[key]} ELSE {}

\* a BAR after memset(pci_dev, 0, sizeof(struct pci_device)), with its type
ZeroBar(type) ==
    [type |-> type, num_ports |-> 0, default_base_port |-> 0, num_pages |-> 0,
     default_base_addr |-> W32(0), mem_read |-> FALSE, mem_write |-> FALSE,
     val |-> W32(0), mask |-> W32(0), updated |-> 0]

\* v3_pci_register_device, the loop that copies the BARs: the device's BARs
\* and the new dev_io_base
RECURSIVE CopyBars(_, _, _, _)
CopyBars(bars, i, bar, io_base) ==
    IF i >= 6 THEN [bar |-> bar, dev_io_base |-> io_base]
    ELSE CASE bars[i].type = "PCI_BAR_IO" ->
                 IF bars[i].default_base_port # 65535
                 THEN CopyBars(bars, i + 1,
                               [bar EXCEPT ![i] = [ZeroBar("PCI_BAR_IO") EXCEPT
                                                      !.num_ports = bars[i].num_ports,
                                                      !.default_base_port = bars[i].default_base_port]],
                               io_base)
                 ELSE CopyBars(bars, i + 1,
                               [bar EXCEPT ![i] = [ZeroBar("PCI_BAR_IO") EXCEPT
                                                      !.num_ports = bars[i].num_ports,
                                                      !.default_base_port = io_base]],
                               (io_base + (256 * ((bars[i].num_ports \div 256) + 1))) % 65536)
           [] bars[i].type = "PCI_BAR_MEM32" ->
                 CopyBars(bars, i + 1,
                          [bar EXCEPT ![i] = [ZeroBar("PCI_BAR_MEM32") EXCEPT
                                                 !.num_pages = bars[i].num_pages,
                                                 !.default_base_addr = bars[i].default_base_addr,
                                                 !.mem_read = bars[i].mem_read,
                                                 !.mem_write = bars[i].mem_write]],
                          io_base)
           [] OTHER -> CopyBars(bars, i + 1, [bar EXCEPT ![i] = ZeroBar(bars[i].type)], io_base)

\* init_bars: the device with its BARs initialised and 0, or -1; hook_ok is
\* the result of v3_hook_io_port
RECURSIVE init_bars(_, _, _)
init_bars(dev, i, hook_ok) ==
    IF i >= 6 THEN [dev |-> dev, ret |-> 0]
    ELSE LET bar_offset == 16 + (4 * i)
             b == dev.bar[i]
             Set(val, mask) ==
                 [dev EXCEPT !.bar[i].val = val, !.bar[i].mask = mask,
                             !.config_space = SetCfgWord(@, bar_offset, val)]
         IN  CASE b.type = "PCI_BAR_IO" ->
                     LET mask == OrLow(Not32(W32(b.num_ports - 1)), 1)
                         val == OrLow(IF b.default_base_port # 65535
                                      THEN And32(W32(b.default_base_port), mask)
                                      ELSE W32(0), 1)
                     IN  IF b.num_ports > 0 /\ b.default_base_port # 65535 /\ ~hook_ok
                         THEN [dev |-> [dev EXCEPT !.bar[i].val = val, !.bar[i].mask = mask],
                               ret |-> -1]
                         ELSE init_bars(Set(val, mask), i + 1, hook_ok)
               [] b.type = "PCI_BAR_MEM32" ->
                     LET mask == OrLow(Not32(W32((b.num_pages * 4096) - 1)), 15)
                         val == IF b.default_base_addr # <<255, 255, 255, 255>>
                                THEN And32(b.default_base_addr, mask)
                                ELSE W32(0)
                     IN  IF b.mem_read THEN init_bars(Set(val, mask), i + 1, hook_ok)
                         ELSE IF b.mem_write
                         THEN [dev |-> [dev EXCEPT !.bar[i].val = val, !.bar[i].mask = mask],
                               ret |-> -1]
                         ELSE init_bars(Set(OrLow(val, 8), mask), i + 1, hook_ok)
               [] b.type = "PCI_BAR_NONE" -> init_bars(Set(W32(0), W32(0)), i + 1, hook_ok)
               [] b.type = "PCI_BAR_PASSTHROUGH" -> init_bars(dev, i + 1, hook_ok)
               [] OTHER -> [dev |-> dev, ret |-> -1]

\* a device after memset(pci_dev, 0, sizeof(struct pci_device)): the first 64
\* bytes of its configuration space, its BARs and its flags.  zero names the
\* enumerators of value 0 of pci_device_type_t and pci_bar_type_t, which
\* pci.c does not show.
ZeroDevice(zero) ==
    [name |-> "", type |-> zero[1], dev_num |-> 0, fn_num |-> 0,
     config_space |-> [k \in 0 .. 63 |-> 0],
     bar |-> [i \in 0 .. 5 |-> ZeroBar(zero[2])],
     bar_update_flag |-> 0, exp_rom_update_flag |-> 0, exp_rom_update |-> FALSE]

\* the entry of the register functions without the test of get_device
Slot_unchecked(p, dev_num, fn_num) ==
    IF dev_num > MAX_BUS_DEVICES THEN [ok |-> FALSE, dev_num |-> dev_num]
    ELSE LET n == IF dev_num = PCI_AUTO_DEV_NUM THEN get_free_dev_num(p.dev_map) ELSE dev_num
         IN  IF dev_num = PCI_AUTO_DEV_NUM /\ n = -1 THEN [ok |-> FALSE, dev_num |-> n]
             ELSE [ok |-> TRUE, dev_num |-> n]

\* the entry of both register functions: the device number to use, or the
\* reason to return NULL
Slot(p, dev_num, fn_num) ==
    IF dev_num > MAX_BUS_DEVICES THEN [ok |-> FALSE, dev_num |-> dev_num]
    ELSE LET n == IF dev_num = PCI_AUTO_DEV_NUM THEN get_free_dev_num(p.dev_map) ELSE dev_num
         IN  IF dev_num = PCI_AUTO_DEV_NUM /\ n = -1 THEN [ok |-> FALSE, dev_num |-> n]
             ELSE IF get_device(p, n, fn_num) # {} THEN [ok |-> FALSE, dev_num |-> n]
             ELSE [ok |-> TRUE, dev_num |-> n]

\* v3_pci_register_device
v3_pci_register_device(p, dev_type, dev_num, fn_num, name, bars, exp_rom_update, hook_ok) ==
    LET Ret(q, ret) == [q EXCEPT !.last = Call("v3_pci_register_device", NULL,
                                                <<dev_num, fn_num>>, ret, << >>)]
        slot == Slot(p, dev_num, fn_num)
    IN  IF ~slot.ok THEN Ret(p, {})
        ELSE IF dev_type \notin {"PCI_STD_DEVICE", "PCI_MULTIFUNCTION"} THEN Ret(p, {})
        ELSE LET zeroed == ZeroDevice(<<dev_type, "PCI_BAR_NONE">>)
                 copied == CopyBars(bars, 0, zeroed.bar, p.dev_io_base)
                 pci_dev == [zeroed EXCEPT
                                !.type = dev_type,
                                !.config_space[14] = IF dev_type = "PCI_STD_DEVICE" THEN 0 ELSE 128,
                                !.dev_num = slot.dev_num % 32,
                                !.fn_num = fn_num % 8,
                                !.name = name,
                                !.exp_rom_update = exp_rom_update,
                                !.bar = copied.bar]
                 q == [p EXCEPT !.dev_io_base = copied.dev_io_base]
                 init == init_bars(pci_dev, 0, hook_ok)
             IN  IF init.ret = -1 THEN Ret(q, {})
                 ELSE Ret(add_device_to_bus(q, init.dev).p, {init.dev})

\* v3_pci_register_passthrough_device: the type is left as memset wrote it
v3_pci_register_passthrough_device(p, dev_num, fn_num, name, zero) ==
    LET Ret(q, ret) == [q EXCEPT !.last = Call("v3_pci_register_passthrough_device", NULL,
                                                <<dev_num, fn_num>>, ret, << >>)]
        slot == Slot(p, dev_num, fn_num)
    IN  IF ~slot.ok THEN Ret(p, {})
        ELSE LET pci_dev == [ZeroDevice(zero) EXCEPT !.dev_num = slot.dev_num % 32,
                                                     !.fn_num = fn_num % 8,
                                                     !.name = name]
             IN  Ret(add_device_to_bus(p, pci_dev).p, {pci_dev})

(***************************************************************************)
(* SpecPci: devices register on bus 0, with explicit and automatic device  *)
(* numbers, until MaxDevs devices are attached.                            *)
(***************************************************************************)
MaxDevs == 3

\* the variables of the LAPICs, which pci.c never touches
ApicVars == <<base_addr_msr, lapic_id, task_prio, log_dst, dst_fmt, int_cmd,
              ipi_state, int_req_reg, int_svc_reg, int_en_reg, irq_queue, regs, core,
              state_lock, queue_lock, thread, missed_ints, base_addr, mem_regions, begun>>

PciBecomes(q) ==
    /\ Cardinality(DOMAIN q.devices) <= MaxDevs
    /\ devices' = q.devices
    /\ dev_map' = q.dev_map
    /\ addr_reg' = q.addr_reg
    /\ dev_io_base' = q.dev_io_base
    /\ last' = q.last
    /\ UNCHANGED ApicVars

\* the device numbers and function numbers the devices ask for
RegDevNums == {PCI_AUTO_DEV_NUM, 0, 31, 32}
RegFnNums == {0, 1}
\* the device numbers passthrough devices ask for
PassDevNums == {PCI_AUTO_DEV_NUM, 32}
\* a device without BARs
NoBars == [i \in 0 .. 5 |-> ZeroBar("PCI_BAR_NONE")]

RegisterDevice ==
    \E dev_num \in RegDevNums, fn_num \in RegFnNums, p \in {Pci} :
        PciBecomes(v3_pci_register_device(p, "PCI_STD_DEVICE", dev_num, fn_num, "ide", NoBars, FALSE, TRUE))
RegisterPassthrough ==
    \E dev_num \in PassDevNums, fn_num \in RegFnNums, p \in {Pci},
       zero \in {<<"PCI_STD_DEVICE", "PCI_BAR_IO">>, <<"PCI_PASSTHROUGH", "PCI_BAR_NONE">>} :
        PciBecomes(v3_pci_register_passthrough_device(p, dev_num, fn_num, "host", zero))

NextPci ==
    \/ RegisterDevice
    \/ RegisterPassthrough

SpecPci == Init /\ [][NextPci]_vars

\* a register function was called in this step
Registering == last'.op \in {"v3_pci_register_device", "v3_pci_register_passthrough_device"}

\* C38: every device in the tree is found by get_device under its own
\* dev_num and fn_num and has its dev_map bit set; a registration that
\* returns NULL leaves the tree and dev_map unchanged, and a registration at
\* an occupied slot returns NULL; a registration that returns a device has
\* added it to the tree at a devfn that was free and marked its dev_num, and
\* every device registered before is still found.
C38_UniqueSlots ==
    [][Registering =>
          /\ \A k \in DOMAIN devices' :
                \E d \in {devices'[k]} :
                   /\ get_device(Pci', d.dev_num, d.fn_num) = {d}
                   /\ TestFlag(dev_map'[d.dev_num \div 8], Pow2(d.dev_num % 8))
                   /\ \A o \in DOMAIN devices' :
                         (devices'[o].dev_num = d.dev_num /\ devices'[o].fn_num = d.fn_num)
                            => o = k
          /\ last'.ret = {} => (devices' = devices /\ dev_map' = dev_map)
          /\ (last'.arg[1] # PCI_AUTO_DEV_NUM
                 /\ get_device(Pci, last'.arg[1], last'.arg[2]) # {}) => last'.ret = {}
          /\ \A d \in last'.ret :
                /\ get_device(Pci, d.dev_num, d.fn_num) = {}
                /\ get_device(Pci', d.dev_num, d.fn_num) = {d}
                /\ \A k \in DOMAIN devices : k \in DOMAIN devices' /\ devices'[k] = devices[k]
                /\ DOMAIN devices' = DOMAIN devices \cup {devfn(d)}]_vars

\* C38 witness: "ide" asked for the slot (0, 1) that "host" holds and got
\* NULL; other devices sit at function 0 of the same device number and at
\* device number 1
C38_Witness ==
    /\ last.op = "v3_pci_register_device" /\ last.arg = <<0, 1>> /\ last.ret = {}
    /\ get_device(Pci, 0, 1) # {}
    /\ \A d \in get_device(Pci, 0, 1) : d.name = "host"
    /\ get_device(Pci, 0, 0) # {}
    /\ get_device(Pci, 1, 0) # {}

\* C39: a register function called with an explicit dev_num outside 0 .. 31
\* returns NULL and changes nothing, and the dev_num of a device it returns
\* is the device number it was asked for or, for an automatic device number,
\* one that was free.
C39_RangeChecked ==
    [][Registering =>
          /\ (last'.arg[1] # PCI_AUTO_DEV_NUM
                 /\ last'.arg[1] \notin 0 .. (MAX_BUS_DEVICES - 1))
                => (last'.ret = {} /\ UNCHANGED <<devices, dev_map, dev_io_base>>)
          /\ \A d \in last'.ret :
                IF last'.arg[1] = PCI_AUTO_DEV_NUM
                THEN ~TestFlag(dev_map[d.dev_num \div 8], Pow2(d.dev_num % 8))
                ELSE d.dev_num = last'.arg[1]]_vars

(***************************************************************************)
(* pci.c: the configuration ports                                          *)
(***************************************************************************)
\* addr_port_write: src holds length bytes
addr_port_write(p, port, src, length) ==
    LET reg_offset == port % 4
        Ret(q, ret) == [q EXCEPT !.last = Call("addr_port_write", NULL, <<port, length>>, ret, << >>)]
        Stored == [k \in 1 .. 4 |-> IF (k - 1) \in reg_offset .. ((reg_offset + length) - 1)
                                    THEN src[k - reg_offset] ELSE p.addr_reg[k]]
    IN  IF length = 4 THEN (IF reg_offset # 0 THEN Ret(p, -1)
                            ELSE Ret([p EXCEPT !.addr_reg = Stored], length))
        ELSE IF length = 2 THEN (IF reg_offset > 2 THEN Ret(p, -1)
                                 ELSE Ret([p EXCEPT !.addr_reg = Stored], length))
        ELSE IF length = 1 THEN Ret([p EXCEPT !.addr_reg = Stored], length)
        ELSE Ret(p, -1)

\* is_cfg_reg_writable
is_cfg_reg_writable(header_type, reg_num) ==
    IF header_type \in {0, 128}
    THEN (IF reg_num \in {0, 1, 2, 3, 8, 9, 10, 11, 14, 61} THEN 0 ELSE 1)
    ELSE -1

\* bar_update: hook_ok is the result of v3_hook_io_port
bar_update(dev, bar_num, new_val, hook_ok) ==
    LET b == dev.bar[bar_num]
    IN  CASE b.type = "PCI_BAR_IO" ->
                IF b.num_ports > 0 /\ ~hook_ok THEN [dev |-> dev, ret |-> -1]
                ELSE [dev |-> [dev EXCEPT !.bar[bar_num].val = new_val], ret |-> 0]
          [] b.type = "PCI_BAR_MEM32" ->
                IF b.mem_read THEN [dev |-> [dev EXCEPT !.bar[bar_num].val = new_val], ret |-> 0]
                ELSE [dev |-> dev, ret |-> -1]
          [] b.type = "PCI_BAR_NONE" -> [dev |-> dev, ret |-> 0]
          [] OTHER -> [dev |-> dev, ret |-> -1]

\* data_port_write, the loop over the bytes written
RECURSIVE WriteCfgBytes(_, _, _, _, _)
WriteCfgBytes(dev, reg_num, src, length, i) ==
    IF i >= length THEN [dev |-> dev, ret |-> 0]
    ELSE LET cur_reg == reg_num + i
             writable == is_cfg_reg_writable(dev.config_space[14], cur_reg)
             stored == [dev EXCEPT !.config_space[cur_reg] = src[i + 1]]
         IN  IF writable = -1 THEN [dev |-> dev, ret |-> -1]
             ELSE IF writable = 0 THEN WriteCfgBytes(dev, reg_num, src, length, i + 1)
             ELSE IF cur_reg >= 16 /\ cur_reg < 40
             THEN WriteCfgBytes([stored EXCEPT !.bar_update_flag = 1,
                                               !.bar[((cur_reg - (cur_reg % 4)) - 16) \div 4].updated = 1],
                                reg_num, src, length, i + 1)
             ELSE IF cur_reg >= 48 /\ cur_reg < 52
             THEN WriteCfgBytes([stored EXCEPT !.exp_rom_update_flag = 1],
                                reg_num, src, length, i + 1)
             ELSE IF cur_reg = 15
             THEN WriteCfgBytes([stored EXCEPT !.config_space[15] = 0], reg_num, src, length, i + 1)
             ELSE WriteCfgBytes(stored, reg_num, src, length, i + 1)

\* data_port_write, the scan for updated BARs; cb_ok is the result of the
\* bar_write callback of a passthrough BAR
RECURSIVE ScanBars(_, _, _, _)
ScanBars(dev, i, hook_ok, cb_ok) ==
    IF i >= 6 THEN [dev |-> [dev EXCEPT !.bar_update_flag = 0], ret |-> 0]
    ELSE IF dev.bar[i].updated = 0 THEN ScanBars(dev, i + 1, hook_ok, cb_ok)
    ELSE IF dev.bar[i].type = "PCI_BAR_PASSTHROUGH"
    THEN (IF ~cb_ok THEN [dev |-> dev, ret |-> -1]
          ELSE ScanBars([dev EXCEPT !.bar[i].updated = 0], i + 1, hook_ok, cb_ok))
    ELSE LET bar_offset == 16 + (4 * i)
             masked == [dev EXCEPT !.config_space =
                           SetCfgWord(@, bar_offset,
                                      And32(CfgWord(dev.config_space, bar_offset), dev.bar[i].mask))]
             u == bar_update(masked, i, CfgWord(masked.config_space, bar_offset), hook_ok)
         IN  IF u.ret = -1 THEN [dev |-> u.dev, ret |-> -1]
             ELSE ScanBars([u.dev EXCEPT !.bar[i].updated = 0], i + 1, hook_ok, cb_ok)

\* data_port_write: hook_ok and cb_ok are the results of the calls it makes
\* outside pci.c
data_port_write(p, port, src, length, hook_ok, cb_ok) ==
    LET reg_num == (p.addr_reg[1] - (p.addr_reg[1] % 4)) + (port % 4)
        bus_num == p.addr_reg[3]
        dev_num == p.addr_reg[2] \div 8
        fn_num == p.addr_reg[2] % 8
        pci_dev == get_device(p, dev_num, fn_num)
        Ret(q, ret) == [q EXCEPT !.last = Call("data_port_write", (dev_num * 8) + fn_num,
                                                <<reg_num, length>>, ret, << >>)]
    IN  IF bus_num # 0 THEN Ret(p, length)
        ELSE IF pci_dev = {} THEN Ret(p, -1)
        ELSE LET dev == CHOOSE d \in pci_dev : TRUE
                 Keep(d) == [p EXCEPT !.devices[devfn(dev)] = d]
             IN  IF dev.type = "PCI_PASSTHROUGH" THEN Ret(p, IF cb_ok THEN 0 ELSE -1)
                 ELSE LET w == WriteCfgBytes(dev, reg_num, src, length, 0)
                      IN  IF w.ret = -1 THEN Ret(Keep(w.dev), -1)
                          ELSE LET b == IF w.dev.bar_update_flag # 0
                                        THEN ScanBars(w.dev, 0, hook_ok, cb_ok)
                                        ELSE [dev |-> w.dev, ret |-> 0]
                               IN  IF b.ret = -1 THEN Ret(Keep(b.dev), -1)
                                   ELSE IF b.dev.exp_rom_update_flag # 0 /\ b.dev.exp_rom_update
                                   THEN Ret(Keep([b.dev EXCEPT !.exp_rom_update_flag = 0]), length)
                                   ELSE Ret(Keep(b.dev), length)

(***************************************************************************)
(* SpecBar: a card with an I/O BAR, a hooked memory BAR and a memory BAR   *)
(* without hooks is attached at device 0; the guest selects its registers  *)
(* through the address port and writes them through the data port.         *)
(***************************************************************************)
\* BAR 0: 16 I/O ports at the next free base; BAR 1: one page at 0xf0000000
\* with read and write hooks; BAR 2: one page at 0xf0001000 without hooks
CardBars ==
    [i \in 0 .. 5 |->
        CASE i = 0 -> [ZeroBar("PCI_BAR_IO") EXCEPT !.num_ports = 16, !.default_base_port = 65535]
          [] i = 1 -> [ZeroBar("PCI_BAR_MEM32") EXCEPT !.num_pages = 1,
                                                       !.default_base_addr = <<0, 0, 0, 240>>,
                                                       !.mem_read = TRUE, !.mem_write = TRUE]
          [] i = 2 -> [ZeroBar("PCI_BAR_MEM32") EXCEPT !.num_pages = 1,
                                                       !.default_base_addr = <<0, 16, 0, 240>>]
          [] OTHER -> ZeroBar("PCI_BAR_NONE")]

AttachCard ==
    \E p \in {Pci} :
        PciBecomes(v3_pci_register_device(p, "PCI_STD_DEVICE", 0, 0, "nic", CardBars, FALSE, TRUE))

\* the configuration addresses the guest selects: BAR 0, BAR 1 and BAR 2 of
\* device 0, BAR 0 of the absent device 1
CfgAddrs == {<<16, 0, 0, 128>>, <<20, 0, 0, 128>>, <<24, 0, 0, 128>>, <<16, 8, 0, 128>>}
WriteAddrPort ==
    \E src \in CfgAddrs, p \in {Pci} : PciBecomes(addr_port_write(p, 3320, src, 4))

\* what the guest writes to the data port: the sizing pattern and a base
CfgData == {<<255, 255, 255, 255>>, <<1, 208, 0, 224>>}
WriteDataPort ==
    \E src \in CfgData, length \in {4}, hook_ok \in BOOLEAN, p \in {Pci} :
        PciBecomes(data_port_write(p, 3324, src, length, hook_ok, TRUE))

NextBar ==
    \/ AttachCard
    \/ WriteAddrPort
    \/ WriteDataPort

SpecBar == Init /\ [][NextBar]_vars

\* C40: after every data-port write to a standard device, whatever it
\* returned, every BAR of type IO or MEM32 has its configuration-space word
\* equal to bar[i].val and within bar[i].mask, its updated flag is clear and
\* the device's bar_update_flag is clear.
C40_BarsInStep ==
    (last.op = "data_port_write" /\ last.apic \in DOMAIN devices)
       => \E d \in {devices[last.apic]} :
             d.type # "PCI_PASSTHROUGH"
                => /\ d.bar_update_flag = 0
                   /\ \A i \in 0 .. 5 :
                         d.bar[i].type \in {"PCI_BAR_IO", "PCI_BAR_MEM32"}
                            => /\ CfgWord(d.config_space, 16 + (4 * i)) = d.bar[i].val
                               /\ And32(d.bar[i].val, d.bar[i].mask) = d.bar[i].val
                               /\ d.bar[i].updated = 0
====
